---- MODULE Spec2Model ----
(***************************************************************************)
(* ExternalMonitorProxy (package externalmonitor): the proxy between the   *)
(* node-problem-detector host and an external gRPC health plugin.          *)
(*                                                                         *)
(* Three threads of control share one proxy: the goroutine of monitorLoop, *)
(* the goroutine of healthCheckLoop and the host thread that calls Start   *)
(* and Stop.  The plugin, the gRPC channel state, the wall clock and the   *)
(* host's reads of the status channel are the environment.                 *)
(***************************************************************************)
EXTENDS Integers, Sequences, FiniteSets, TLC

\* ---------------------------------------------------------------- bounds
\* CheckHealth calls issued in one behaviour (caps sequenceNumber).
MaxCalls == 2
\* Capacity of statusChan in the model; the program makes it with 1000
\* slots (NewExternalMonitorProxy), the model scales that down.
ChanCap == 1
\* Calls of Stop the host makes in one behaviour.
MaxStopCalls == 2
\* Resolution of time.Duration in the model: units per second (the program
\* counts nanoseconds).
Second == 2
\* Calls of ApplyConfiguration on one configuration in one behaviour.
MaxApply == 2
\* Width of time.Duration in the model, in bits (the program's is int64).
DurationBits == 10
\* The largest retryPolicy.maxAttempts of the backoff computations.
MaxRetryAttempts == 10
\* The longest condition list given to conditionsEqual.
MaxConditions == 2

\* ------------------------------------------------------------- variables
VARIABLES
  config,          \* *types.ExternalMonitorConfig, immutable after Validate
  conn,            \* p.conn: "nil", or the channel's state
  connected,       \* p.connected
  recentAttempt,   \* time.Since(p.lastConnectAttempt) < time.Second
  backoffAttempt,  \* p.backoffAttempt
  errorCount,      \* p.errorCount
  sequenceNumber,  \* p.sequenceNumber
  lastStatus,      \* p.lastStatus: <<>> is nil, <<s>> points to s
  metadata,        \* p.metadata: "nil", or what GetMetadata returned
  statusChan,      \* p.statusChan: the buffered items, oldest first
  chanClosed,      \* close(p.statusChan) has run
  stopping,        \* tomb: the stop channel is closed
  done,            \* tomb: the done channel is closed
  lockHolder,      \* p.connectionMutex: who holds the write lock
  pc,              \* where each thread of control is
  reqSeq,          \* checkHealth: req.Sequence of the call in flight
  reqParams,       \* checkHealth: req.Parameters of the call in flight
  errCode,         \* checkHealth/handleError: the code of err
  tmpCount,        \* handleError: the value p.errorCount++ has read
  startErr,        \* the error Start has returned: "none" before it returns
  stopCalls,       \* calls of Stop begun so far
  panicked,        \* the process has panicked
  nCalls,          \* history: CheckHealth calls issued since Start
  prevPolled,      \* history: the Status of the previous successful poll
  lastPlaced,      \* history: the Status most recently put in statusChan
  lastOutcome,     \* history: what the last emission decision did
  otherRun,        \* history: consecutive Other errors, no reset between
  endpointUp,      \* environment: from now on the socket exists, grpc.Dial
                   \* succeeds and the channel does not leave Ready/Idle
  rawConfig,       \* the *ExternalMonitorConfig a caller holds, as loaded
  outcome,         \* what the calls on rawConfig have returned
  backoff,         \* attemptReconnection: its local variable backoff
  openSessions     \* environment: grpc.ClientConns dialled and not closed

vars == <<config, conn, connected, recentAttempt, backoffAttempt, errorCount,
          sequenceNumber, lastStatus, metadata, statusChan, chanClosed,
          stopping, done, lockHolder, pc, reqSeq, errCode, tmpCount, stopCalls,
          panicked, nCalls, prevPolled, lastPlaced, lastOutcome, otherRun,
          endpointUp, rawConfig, outcome, backoff, startErr, reqParams,
          openSessions>>

connVars == <<conn, connected, backoffAttempt, errorCount, metadata, otherRun,
             openSessions>>
tombVars == <<stopping, done>>
chanVars == <<statusChan, chanClosed, lastPlaced, lastOutcome>>
callVars == <<sequenceNumber, reqSeq, reqParams, nCalls>>
errVars == <<errCode, tmpCount>>
loadVars == <<rawConfig, outcome, backoff>>

Procs == {"monitor", "health", "stop"}

\* ------------------------------------------------------------ data model
\* types.ConditionDefinition entries a configuration may declare.
GPUHealthyDef ==
  [type |-> "GPUHealthy", reason |-> "GPUIsHealthy", message |-> "GPU is healthy"]

ConditionDefs == {<<>>, <<GPUHealthyDef>>}

\* healthCheck.errorThreshold and retryPolicy.maxAttempts values a validated
\* configuration is given here (Validate wants both >= 1).
ErrorThresholds == {1, 2}

MaxAttemptsValues == {1}

\* pluginParameters as loaded: a list of key/value pairs.
PluginParameters == <<<<"temperature_threshold", "80">>>>

\* The validated configurations a proxy is built from.  An empty Conditions
\* list is paired with skipInitialStatus = FALSE only: with it TRUE the
\* list is never read.
Configs ==
  {c \in [errorThreshold : ErrorThresholds, maxAttempts : MaxAttemptsValues,
          skipInitialStatus : BOOLEAN, conditions : ConditionDefs,
          pluginParameters : {PluginParameters}] :
     c.skipInitialStatus => c.conditions # <<>>}

\* pb.Status values the plugin may answer CheckHealth with.
WireHealthy ==
  [source |-> "gpu-monitor", events |-> <<>>,
   conditions |-> <<[type |-> "GPUHealthy", status |-> "CONDITION_STATUS_FALSE",
                     transition |-> 1, reason |-> "GPUIsHealthy",
                     message |-> "GPU is healthy"]>>]

WireHotEvent ==
  [source |-> "gpu-monitor",
   events |-> <<[severity |-> "SEVERITY_WARN", timestamp |-> 1,
                 reason |-> "GPUOverheating",
                 message |-> "GPU temperature 85C exceeds 80C"]>>,
   conditions |-> <<[type |-> "GPUHealthy", status |-> "CONDITION_STATUS_TRUE",
                     transition |-> 1, reason |-> "GPUOverheating",
                     message |-> "GPU temperature 85C exceeds 80C"]>>]

WireStatuses == {WireHealthy, WireHotEvent}

\* gRPC status codes a failed CheckHealth may carry.
ErrorCodes == {"Unavailable", "DeadlineExceeded", "Unimplemented", "Internal"}

\* ------------------------------------------------------- pure functions
\* convertSeverity with Warn as its default.
convertSeverityWarnDefault(pbSeverity) ==
  CASE pbSeverity = "SEVERITY_INFO" -> "Info"
    [] pbSeverity = "SEVERITY_WARN" -> "Warn"
    [] OTHER -> "Warn"

convertSeverity(pbSeverity) ==
  CASE pbSeverity = "SEVERITY_INFO" -> "Info"
    [] pbSeverity = "SEVERITY_WARN" -> "Warn"
    [] OTHER -> "Info"

convertConditionStatus(pbStatus) ==
  CASE pbStatus = "CONDITION_STATUS_TRUE" -> "True"
    [] pbStatus = "CONDITION_STATUS_FALSE" -> "False"
    [] pbStatus = "CONDITION_STATUS_UNKNOWN" -> "Unknown"
    [] OTHER -> "Unknown"

convertStatus(pbStatus) ==
  [source |-> pbStatus.source,
   events |-> [i \in 1..Len(pbStatus.events) |->
                 [severity |-> convertSeverity(pbStatus.events[i].severity),
                  timestamp |-> pbStatus.events[i].timestamp,
                  reason |-> pbStatus.events[i].reason,
                  message |-> pbStatus.events[i].message]],
   conditions |-> [i \in 1..Len(pbStatus.conditions) |->
                 [type |-> pbStatus.conditions[i].type,
                  status |-> convertConditionStatus(pbStatus.conditions[i].status),
                  transition |-> pbStatus.conditions[i].transition,
                  reason |-> pbStatus.conditions[i].reason,
                  message |-> pbStatus.conditions[i].message]]]

\* conditionsEqual comparing the lists as sets of conditions, whatever
\* their order.
conditionsEqualUnordered(a, b) ==
  IF Len(a) # Len(b)
  THEN FALSE
  ELSE \A i \in 1..Len(a) : \E j \in 1..Len(b) :
         ~(a[i].type # b[j].type \/ a[i].status # b[j].status
           \/ a[i].reason # b[j].reason \/ a[i].message # b[j].message)

conditionsEqual(a, b) ==
  IF Len(a) # Len(b)
  THEN FALSE
  ELSE \A i \in 1..Len(a) :
         ~(a[i].type # b[i].type \/ a[i].status # b[i].status
           \/ a[i].reason # b[i].reason \/ a[i].message # b[i].message)

\* shouldSendStatus without its test for events.
shouldSendStatusWithoutEvents(last, status) ==
  IF last = <<>>
  THEN TRUE
  ELSE ~conditionsEqual(last[1].conditions, status.conditions)

\* shouldSendStatus with p.lastStatus passed as last.
shouldSendStatus(last, status) ==
  IF last = <<>>
  THEN TRUE
  ELSE IF Len(status.events) > 0
       THEN TRUE
       ELSE ~conditionsEqual(last[1].conditions, status.conditions)

\* The initial Status with every condition reported as Unknown.
initialStatusUnknown(cfg) ==
  [source |-> "gpu-monitor", events |-> <<>>,
   conditions |-> [i \in 1..Len(cfg.conditions) |->
                 [type |-> cfg.conditions[i].type, status |-> "Unknown",
                  transition |-> 0, reason |-> cfg.conditions[i].reason,
                  message |-> cfg.conditions[i].message]]]

\* The Status sendInitialStatus builds from config.Conditions (now is 0).
initialStatus(cfg) ==
  [source |-> "gpu-monitor", events |-> <<>>,
   conditions |-> [i \in 1..Len(cfg.conditions) |->
                 [type |-> cfg.conditions[i].type, status |-> "False",
                  transition |-> 0, reason |-> cfg.conditions[i].reason,
                  message |-> cfg.conditions[i].message]]]

\* handleError's switch on st.Code().
classify(code) ==
  CASE code \in {"Unavailable", "DeadlineExceeded"} -> "Transient"
    [] code = "Unimplemented" -> "Unsupported"
    [] OTHER -> "Other"

\* isConnected: p.conn != nil and its state is Ready or Idle.
isConnected ==
  IF conn = "nil" THEN FALSE ELSE conn = "live"

\* The select without its default case and with the send always ready.
selectSendUnbounded(ch, closed, stop) ==
  {IF closed THEN "panic" ELSE "sent"} \cup (IF stop THEN {"stop"} ELSE {})

\* The outcomes of `select { case p.statusChan <- s: case <-p.tomb.Stopping():
\* default: }`: a ready case is taken (any of them when several are), the
\* default only when none is.  A send on a closed channel is ready and panics.
selectSend(ch, closed, stop) ==
  LET sendReady == closed \/ Len(ch) < ChanCap
  IN  (IF sendReady THEN {IF closed THEN "panic" ELSE "sent"} ELSE {})
      \cup (IF stop THEN {"stop"} ELSE {})
      \cup (IF ~sendReady /\ ~stop THEN {"dropped"} ELSE {})

\* ------------------------------------------------------- configuration
\* ConditionDefinition entries with one required field left empty.
NoTypeDef ==
  [type |-> "", reason |-> "GPUIsHealthy", message |-> "GPU is healthy"]

NoReasonDef ==
  [type |-> "GPUMemory", reason |-> "", message |-> "GPU memory is fine"]

NoMessageDef ==
  [type |-> "GPUMemory", reason |-> "GPUMemoryIsFine", message |-> ""]

RawConditions ==
  {<<>>, <<GPUHealthyDef>>, <<NoTypeDef>>, <<GPUHealthyDef, NoReasonDef>>,
   <<GPUHealthyDef, NoMessageDef>>}

\* Plugin, Source and SocketAddress as loaded: all three given, or one of
\* them wrong or empty.
RawIdentities ==
  {[plugin |-> "external", source |-> "gpu-monitor",
    socketAddress |-> "/var/run/npd/gpu-monitor.sock"],
   [plugin |-> "custom", source |-> "gpu-monitor",
    socketAddress |-> "/var/run/npd/gpu-monitor.sock"],
   [plugin |-> "external", source |-> "",
    socketAddress |-> "/var/run/npd/gpu-monitor.sock"],
   [plugin |-> "external", source |-> "gpu-monitor", socketAddress |-> ""]}

\* BackoffMultiplier values as fractions: 0, 0.5, 1.0 and 2.0.
RawMultipliers ==
  {[num |-> 0, den |-> 1], [num |-> 1, den |-> 2], [num |-> 1, den |-> 1],
   [num |-> 2, den |-> 1]}

\* The numeric and list fields of a loaded ExternalMonitorConfig.
RawSettings ==
  [invokeInterval : {0, Second - 1, 3 * Second},
   timeout : {0, Second - 1, Second, 3 * Second},
   maxAttempts : {-1, 0, 2},
   backoffMultiplier : RawMultipliers,
   maxBackoff : {0, 4 * Second},
   initialBackoff : {0, Second},
   healthInterval : {0, Second},
   healthTimeout : {0, Second},
   errorThreshold : {-1, 0, 2},
   metricsReporting : {FALSE},
   conditions : RawConditions]

\* The configurations a caller may hold: ExternalMonitorConfig with
\* PluginConfig, RetryPolicy and HealthCheck flattened.
RawConfigs == {id @@ st : id \in RawIdentities, st \in RawSettings}

\* ApplyConfiguration with its default for ErrorThreshold left out.
ApplyConfigurationNoThreshold(c) ==
  [c EXCEPT
     !.invokeInterval = IF @ = 0 THEN 30 * Second ELSE @,
     !.timeout = IF @ = 0 THEN 10 * Second ELSE @,
     !.maxAttempts = IF @ = 0 THEN 5 ELSE @,
     !.backoffMultiplier = IF @.num = 0 THEN [num |-> 2, den |-> 1] ELSE @,
     !.maxBackoff = IF @ = 0 THEN 5 * 60 * Second ELSE @,
     !.initialBackoff = IF @ = 0 THEN 1 * Second ELSE @,
     !.healthInterval = IF @ = 0 THEN 30 * Second ELSE @,
     !.healthTimeout = IF @ = 0 THEN 5 * Second ELSE @,
     !.metricsReporting = IF ~@ THEN TRUE ELSE @]

\* ApplyConfiguration: each zero field gets its default.
ApplyConfiguration(c) ==
  [c EXCEPT
     !.invokeInterval = IF @ = 0 THEN 30 * Second ELSE @,
     !.timeout = IF @ = 0 THEN 10 * Second ELSE @,
     !.maxAttempts = IF @ = 0 THEN 5 ELSE @,
     !.backoffMultiplier = IF @.num = 0 THEN [num |-> 2, den |-> 1] ELSE @,
     !.maxBackoff = IF @ = 0 THEN 5 * 60 * Second ELSE @,
     !.initialBackoff = IF @ = 0 THEN 1 * Second ELSE @,
     !.healthInterval = IF @ = 0 THEN 30 * Second ELSE @,
     !.healthTimeout = IF @ = 0 THEN 5 * Second ELSE @,
     !.errorThreshold = IF @ = 0 THEN 3 ELSE @,
     !.metricsReporting = IF ~@ THEN TRUE ELSE @]

\* Validate's loop over config.Conditions: the first missing field of the
\* first incomplete entry, or "nil".
validateConditions(conds) ==
  LET bad == {i \in 1..Len(conds) :
                conds[i].type = "" \/ conds[i].reason = ""
                \/ conds[i].message = ""}
  IN  IF bad = {}
      THEN "nil"
      ELSE LET i == CHOOSE j \in bad : \A k \in bad : j <= k
           IN  IF conds[i].type = "" THEN "condition.type is required"
               ELSE IF conds[i].reason = "" THEN "condition.reason is required"
               ELSE "condition.message is required"

\* Validate with <= for < in its test of the timeout.
ValidateTimeoutLax(c) ==
  IF c.plugin # "external" THEN "plugin must be external"
  ELSE IF c.source = "" THEN "source is required"
  ELSE IF c.socketAddress = "" THEN "socketAddress is required"
  ELSE IF c.invokeInterval < Second
  THEN "invoke_interval must be at least 1 second"
  ELSE IF c.timeout < Second THEN "timeout must be at least 1 second"
  ELSE IF c.timeout > c.invokeInterval
  THEN "timeout must be less than invoke_interval"
  ELSE IF c.maxAttempts < 1 THEN "retryPolicy.maxAttempts must be at least 1"
  ELSE IF c.backoffMultiplier.num < c.backoffMultiplier.den
  THEN "retryPolicy.backoffMultiplier must be at least 1.0"
  ELSE IF c.errorThreshold < 1
  THEN "healthCheck.errorThreshold must be at least 1"
  ELSE validateConditions(c.conditions)

\* Validate: the first violated rule's error, or "nil".
Validate(c) ==
  IF c.plugin # "external" THEN "plugin must be external"
  ELSE IF c.source = "" THEN "source is required"
  ELSE IF c.socketAddress = "" THEN "socketAddress is required"
  ELSE IF c.invokeInterval < Second
  THEN "invoke_interval must be at least 1 second"
  ELSE IF c.timeout < Second THEN "timeout must be at least 1 second"
  ELSE IF c.timeout >= c.invokeInterval
  THEN "timeout must be less than invoke_interval"
  ELSE IF c.maxAttempts < 1 THEN "retryPolicy.maxAttempts must be at least 1"
  ELSE IF c.backoffMultiplier.num < c.backoffMultiplier.den
  THEN "retryPolicy.backoffMultiplier must be at least 1.0"
  ELSE IF c.errorThreshold < 1
  THEN "healthCheck.errorThreshold must be at least 1"
  ELSE validateConditions(c.conditions)

\* NewExternalMonitorProxy: (nil, error) when Validate fails, else the proxy
\* and a nil error; <<>> is nil.
NewExternalMonitorProxy(c) ==
  IF Validate(c) # "nil"
  THEN [proxy |-> <<>>, err |-> <<"invalid configuration", Validate(c)>>]
  ELSE [proxy |-> <<[name |-> c.source, config |-> c]>>, err |-> <<>>]

\* --------------------------------------------------------------- backoff
MaxDuration == 2 ^ (DurationBits - 1) - 1

MinDuration == -(2 ^ (DurationBits - 1))

\* math.Pow for a whole exponent.
RECURSIVE Pow(_, _)
Pow(x, n) == IF n = 0 THEN 1 ELSE x * Pow(x, n - 1)

\* time.Duration(f) for the float64 f = n / d >= 0: truncation when f fits;
\* when it does not, Go leaves the result to the implementation: amd64
\* gives the smallest int64, arm64 the largest.
toDuration(n, d, arch) ==
  IF n \div d <= MaxDuration
  THEN n \div d
  ELSE IF arch = "amd64" THEN MinDuration ELSE MaxDuration

\* attemptReconnection's backoff: InitialBackoff * Pow(BackoffMultiplier,
\* backoffAttempt) as a Duration, replaced by MaxBackoff when above it.
backoffDelay(policy, attempt, arch) ==
  LET n == policy.initialBackoff * Pow(policy.backoffMultiplier.num, attempt)
      d == Pow(policy.backoffMultiplier.den, attempt)
      b == toDuration(n, d, arch)
  IN  IF b > policy.maxBackoff THEN policy.maxBackoff ELSE b

\* Retry policies of validated configurations: multiplier 1.0, 1.5, 2.0, 3.0.
RetryPolicies ==
  [initialBackoff : {1, Second},
   backoffMultiplier : {[num |-> 1, den |-> 1], [num |-> 3, den |-> 2],
                        [num |-> 2, den |-> 1], [num |-> 3, den |-> 1]},
   maxBackoff : {4 * Second, 60 * Second},
   maxAttempts : {2, MaxRetryAttempts}]

\* ------------------------------------------------------------------ Init
Init ==
  /\ config \in Configs
  /\ conn = "nil"
  /\ connected = FALSE
  /\ recentAttempt = FALSE
  /\ backoffAttempt = 0
  /\ errorCount = 0
  /\ sequenceNumber = 0
  /\ lastStatus = <<>>
  /\ metadata = "nil"
  /\ openSessions = 0
  /\ statusChan = <<>>
  /\ chanClosed = FALSE
  /\ stopping = FALSE
  /\ done = FALSE
  /\ lockHolder = "none"
  /\ pc = [monitor |-> "new", health |-> "new", stop |-> "new"]
  /\ reqSeq = 0
  /\ reqParams = <<>>
  /\ errCode = "none"
  /\ tmpCount = 0
  /\ startErr = "none"
  /\ stopCalls = 0
  /\ panicked = FALSE
  /\ nCalls = 0
  /\ prevPolled = <<>>
  /\ lastPlaced = <<>>
  /\ lastOutcome = "none"
  /\ otherRun = 0
  /\ endpointUp = FALSE
  /\ rawConfig = "none"
  /\ outcome = "none"
  /\ backoff = 0

\* --------------------------------------------------------- connection
\* The ClientConn p.conn points to has not been closed.
isOpen(c) == c \notin {"nil", "closed"}

\* connectUnsafe dropping p.metadata when the fetch fails.
connectUnsafeClearMetadata(dialOk, metadataOk) ==
  /\ conn' = IF dialOk THEN "live" ELSE IF conn = "nil" THEN "nil" ELSE "closed"
  /\ openSessions' = openSessions - (IF isOpen(conn) THEN 1 ELSE 0)
                                   + (IF dialOk THEN 1 ELSE 0)
  /\ connected' = IF dialOk THEN TRUE ELSE connected
  /\ backoffAttempt' = IF dialOk THEN 0 ELSE backoffAttempt
  /\ errorCount' = IF dialOk THEN 0 ELSE errorCount
  /\ metadata' = IF dialOk THEN (IF metadataOk THEN "v1" ELSE "nil")
                 ELSE metadata
  /\ otherRun' = IF dialOk THEN 0 ELSE otherRun

\* connectUnsafe leaving p.errorCount as it is.
connectUnsafeKeepErrors(dialOk, metadataOk) ==
  /\ conn' = IF dialOk THEN "live" ELSE IF conn = "nil" THEN "nil" ELSE "closed"
  /\ openSessions' = openSessions - (IF isOpen(conn) THEN 1 ELSE 0)
                                   + (IF dialOk THEN 1 ELSE 0)
  /\ connected' = IF dialOk THEN TRUE ELSE connected
  /\ backoffAttempt' = IF dialOk THEN 0 ELSE backoffAttempt
  /\ errorCount' = errorCount
  /\ metadata' = IF dialOk /\ metadataOk THEN "v1" ELSE metadata
  /\ otherRun' = IF dialOk THEN 0 ELSE otherRun

\* connectUnsafe dialling without closing the channel it replaces.
connectUnsafeNoClose(dialOk, metadataOk) ==
  /\ conn' = IF dialOk THEN "live" ELSE conn
  /\ openSessions' = openSessions + (IF dialOk THEN 1 ELSE 0)
  /\ connected' = IF dialOk THEN TRUE ELSE connected
  /\ backoffAttempt' = IF dialOk THEN 0 ELSE backoffAttempt
  /\ errorCount' = IF dialOk THEN 0 ELSE errorCount
  /\ metadata' = IF dialOk /\ metadataOk THEN "v1" ELSE metadata
  /\ otherRun' = IF dialOk THEN 0 ELSE otherRun

\* connectUnsafe (and the body of connect): close the prior channel, dial,
\* and on success install the channel, reset the counters and fetch the
\* metadata, whose failure is only logged.
connectUnsafe(dialOk, metadataOk) ==
  /\ conn' = IF dialOk THEN "live" ELSE IF conn = "nil" THEN "nil" ELSE "closed"
  /\ openSessions' = openSessions - (IF isOpen(conn) THEN 1 ELSE 0)
                                   + (IF dialOk THEN 1 ELSE 0)
  /\ connected' = IF dialOk THEN TRUE ELSE connected
  /\ backoffAttempt' = IF dialOk THEN 0 ELSE backoffAttempt
  /\ errorCount' = IF dialOk THEN 0 ELSE errorCount
  /\ metadata' = IF dialOk /\ metadataOk THEN "v1" ELSE metadata
  /\ otherRun' = IF dialOk THEN 0 ELSE otherRun

\* Start returning the error of a failed initial connect, no loop launched.
StartOrFail ==
  /\ ~panicked
  /\ pc["stop"] = "new"
  /\ \E dialOk \in BOOLEAN, metadataOk \in BOOLEAN :
       /\ connectUnsafe(dialOk, metadataOk)
       /\ startErr' = IF dialOk THEN "nil" ELSE "error"
       /\ pc' = IF dialOk
                THEN [monitor |-> "m_init", health |-> "h_select",
                      stop |-> "idle"]
                ELSE [pc EXCEPT !["stop"] = "idle"]
  /\ UNCHANGED <<config, endpointUp, loadVars>>
  /\ UNCHANGED <<recentAttempt, lastStatus, lockHolder, stopCalls,
                 panicked, prevPolled>>
  /\ UNCHANGED <<tombVars, chanVars, callVars, errVars>>

\* Start: the initial connect, whose failure is only logged; then both
\* loops are launched and (p.statusChan, nil) is returned.
Start ==
  /\ ~panicked
  /\ pc["stop"] = "new"
  /\ \E dialOk \in BOOLEAN, metadataOk \in BOOLEAN :
       connectUnsafe(dialOk, metadataOk)
  /\ pc' = [monitor |-> "m_init", health |-> "h_select", stop |-> "idle"]
  /\ startErr' = "nil"
  /\ UNCHANGED <<config, endpointUp, loadVars>>
  /\ UNCHANGED <<recentAttempt, lastStatus, lockHolder, stopCalls,
                 panicked, prevPolled>>
  /\ UNCHANGED <<tombVars, chanVars, callVars, errVars>>

\* ------------------------------------------------------------ emission
\* The select sending again the Status of the reference, when there is one,
\* in place of the one just produced.
emitStale(status, o) ==
  /\ statusChan' = IF o = "sent"
                   THEN Append(statusChan,
                          IF lastStatus = <<>> THEN status ELSE lastStatus[1])
                   ELSE statusChan
  /\ lastPlaced' = IF o = "sent" THEN <<status>> ELSE lastPlaced
  /\ lastOutcome' = o
  /\ panicked' = (o = "panic")
  /\ lastStatus' = IF o \in {"stop", "panic"} THEN lastStatus ELSE <<status>>
  /\ UNCHANGED chanClosed

\* What the select of checkHealth / sendInitialStatus does to the channel
\* for outcome o, and what the code after it does to p.lastStatus: the
\* Stopping case returns before the assignment.
emit(status, o) ==
  /\ statusChan' = IF o = "sent" THEN Append(statusChan, status) ELSE statusChan
  /\ lastPlaced' = IF o = "sent" THEN <<status>> ELSE lastPlaced
  /\ lastOutcome' = o
  /\ panicked' = (o = "panic")
  /\ lastStatus' = IF o \in {"stop", "panic"} THEN lastStatus ELSE <<status>>
  /\ UNCHANGED chanClosed

\* ------------------------------------------------------- monitorLoop
\* monitorLoop before its for loop: sendInitialStatus unless skipped.
sendInitialStatus ==
  /\ ~panicked
  /\ pc["monitor"] = "m_init"
  /\ IF config.skipInitialStatus \/ Len(config.conditions) = 0
     THEN UNCHANGED <<lastStatus, chanVars, panicked>>
     ELSE \E o \in selectSend(statusChan, chanClosed, stopping) :
            emit(initialStatus(config), o)
  /\ pc' = [pc EXCEPT !["monitor"] = "m_select"]
  /\ UNCHANGED <<config, endpointUp, startErr, loadVars>>
  /\ UNCHANGED <<recentAttempt, lockHolder, stopCalls, prevPolled>>
  /\ UNCHANGED <<connVars, tombVars, callVars, errVars>>

\* monitorLoop's select takes the ticker case.
monitorLoopTick ==
  /\ ~panicked
  /\ pc["monitor"] = "m_select"
  /\ sequenceNumber < MaxCalls
  /\ pc' = [pc EXCEPT !["monitor"] = "m_tick"]
  /\ UNCHANGED <<config, endpointUp, startErr, loadVars>>
  /\ UNCHANGED <<recentAttempt, lastStatus, lockHolder, stopCalls,
                 panicked, prevPolled>>
  /\ UNCHANGED <<connVars, tombVars, chanVars, callVars, errVars>>

\* monitorLoop returning without the deferred tomb.Done.
monitorLoopStopNoDone ==
  /\ ~panicked
  /\ pc["monitor"] = "m_select"
  /\ stopping
  /\ pc' = [pc EXCEPT !["monitor"] = "done"]
  /\ UNCHANGED <<config, endpointUp, startErr, loadVars>>
  /\ UNCHANGED <<recentAttempt, lastStatus, lockHolder, stopCalls,
                 panicked, prevPolled, stopping, done>>
  /\ UNCHANGED <<connVars, chanVars, callVars, errVars>>

\* monitorLoop's select takes the Stopping case; the deferred tomb.Done runs.
monitorLoopStop ==
  /\ ~panicked
  /\ pc["monitor"] = "m_select"
  /\ stopping
  /\ done' = TRUE
  /\ pc' = [pc EXCEPT !["monitor"] = "done"]
  /\ UNCHANGED <<config, endpointUp, startErr, loadVars>>
  /\ UNCHANGED <<recentAttempt, lastStatus, lockHolder, stopCalls,
                 panicked, prevPolled, stopping>>
  /\ UNCHANGED <<connVars, chanVars, callVars, errVars>>

\* checkHealth with the increment placed before the connectivity test.
checkHealthSkipAfterIncrement ==
  /\ ~panicked
  /\ pc["monitor"] = "m_tick"
  /\ lockHolder = "none"
  /\ ~isConnected
  /\ sequenceNumber' = sequenceNumber + 1
  /\ pc' = [pc EXCEPT !["monitor"] = "m_select"]
  /\ UNCHANGED <<config, endpointUp, startErr, loadVars>>
  /\ UNCHANGED <<recentAttempt, lastStatus, lockHolder, stopCalls,
                 panicked, prevPolled, reqSeq, reqParams, nCalls>>
  /\ UNCHANGED <<connVars, tombVars, chanVars, errVars>>

\* checkHealth starting a reconnection when it finds the proxy not connected.
checkHealthSkipReconnect ==
  /\ ~panicked
  /\ pc["monitor"] = "m_tick"
  /\ lockHolder = "none"
  /\ ~isConnected
  /\ pc' = [pc EXCEPT !["monitor"] = "r_enter"]
  /\ UNCHANGED <<config, endpointUp, startErr, loadVars>>
  /\ UNCHANGED <<recentAttempt, lastStatus, lockHolder, stopCalls,
                 panicked, prevPolled>>
  /\ UNCHANGED <<connVars, tombVars, chanVars, callVars, errVars>>

\* checkHealth finds the proxy not connected and returns.
checkHealthSkip ==
  /\ ~panicked
  /\ pc["monitor"] = "m_tick"
  /\ lockHolder = "none"
  /\ ~isConnected
  /\ pc' = [pc EXCEPT !["monitor"] = "m_select"]
  /\ UNCHANGED <<config, endpointUp, startErr, loadVars>>
  /\ UNCHANGED <<recentAttempt, lastStatus, lockHolder, stopCalls,
                 panicked, prevPolled>>
  /\ UNCHANGED <<connVars, tombVars, chanVars, callVars, errVars>>

\* checkHealth issuing its request without the plugin parameters.
checkHealthCallBare ==
  /\ ~panicked
  /\ pc["monitor"] = "m_tick"
  /\ lockHolder = "none"
  /\ isConnected
  /\ sequenceNumber' = sequenceNumber + 1
  /\ reqSeq' = sequenceNumber + 1
  /\ reqParams' = <<>>
  /\ nCalls' = nCalls + 1
  /\ pc' = [pc EXCEPT !["monitor"] = "m_call"]
  /\ UNCHANGED <<config, endpointUp, startErr, loadVars>>
  /\ UNCHANGED <<recentAttempt, lastStatus, lockHolder, stopCalls,
                 panicked, prevPolled>>
  /\ UNCHANGED <<connVars, tombVars, chanVars, errVars>>

\* checkHealth increments the sequence number and issues the call, its
\* request holding config.PluginParameters and the sequence number.
checkHealthCall ==
  /\ ~panicked
  /\ pc["monitor"] = "m_tick"
  /\ lockHolder = "none"
  /\ isConnected
  /\ sequenceNumber' = sequenceNumber + 1
  /\ reqSeq' = sequenceNumber + 1
  /\ reqParams' = config.pluginParameters
  /\ nCalls' = nCalls + 1
  /\ pc' = [pc EXCEPT !["monitor"] = "m_call"]
  /\ UNCHANGED <<config, endpointUp, startErr, loadVars>>
  /\ UNCHANGED <<recentAttempt, lastStatus, lockHolder, stopCalls,
                 panicked, prevPolled>>
  /\ UNCHANGED <<connVars, tombVars, chanVars, errVars>>

\* checkHealth leaving p.errorCount as it is when the Status is suppressed.
checkHealthOkKeepCount ==
  /\ ~panicked
  /\ pc["monitor"] = "m_call"
  /\ \E w \in WireStatuses :
       LET internalStatus == convertStatus(w)
       IN  /\ prevPolled' = <<internalStatus>>
           /\ IF shouldSendStatus(lastStatus, internalStatus)
              THEN \E o \in selectSend(statusChan, chanClosed, stopping) :
                     /\ emit(internalStatus, o)
                     /\ errorCount' = IF o \in {"stop", "panic"} THEN errorCount ELSE 0
              ELSE /\ lastStatus' = <<internalStatus>>
                   /\ lastOutcome' = "suppressed"
                   /\ errorCount' = errorCount
                   /\ UNCHANGED <<statusChan, chanClosed, lastPlaced, panicked>>
  /\ otherRun' = 0
  /\ pc' = [pc EXCEPT !["monitor"] = "m_select"]
  /\ UNCHANGED <<config, endpointUp, startErr, loadVars>>
  /\ UNCHANGED <<recentAttempt, lockHolder, stopCalls, conn, connected,
                 backoffAttempt, metadata, openSessions>>
  /\ UNCHANGED <<tombVars, callVars, errVars>>

\* The call returns a Status: convert, decide, send, record.
checkHealthOk ==
  /\ ~panicked
  /\ pc["monitor"] = "m_call"
  /\ \E w \in WireStatuses :
       LET internalStatus == convertStatus(w)
       IN  /\ prevPolled' = <<internalStatus>>
           /\ IF shouldSendStatus(lastStatus, internalStatus)
              THEN \E o \in selectSend(statusChan, chanClosed, stopping) :
                     /\ emit(internalStatus, o)
                     /\ errorCount' = IF o \in {"stop", "panic"} THEN errorCount ELSE 0
              ELSE /\ lastStatus' = <<internalStatus>>
                   /\ lastOutcome' = "suppressed"
                   /\ errorCount' = 0
                   /\ UNCHANGED <<statusChan, chanClosed, lastPlaced, panicked>>
  /\ otherRun' = 0
  /\ pc' = [pc EXCEPT !["monitor"] = "m_select"]
  /\ UNCHANGED <<config, endpointUp, startErr, loadVars>>
  /\ UNCHANGED <<recentAttempt, lockHolder, stopCalls, conn, connected,
                 backoffAttempt, metadata, openSessions>>
  /\ UNCHANGED <<tombVars, callVars, errVars>>

\* checkHealth clearing p.lastStatus when the call returns an error.
checkHealthFailForget ==
  /\ ~panicked
  /\ pc["monitor"] = "m_call"
  /\ \E code \in ErrorCodes : errCode' = code
  /\ tmpCount' = errorCount
  /\ lastStatus' = <<>>
  /\ pc' = [pc EXCEPT !["monitor"] = "m_incr"]
  /\ UNCHANGED <<config, endpointUp, startErr, loadVars>>
  /\ UNCHANGED <<recentAttempt, lockHolder, stopCalls,
                 panicked, prevPolled>>
  /\ UNCHANGED <<connVars, tombVars, chanVars, callVars>>

\* The call returns an error: handleError starts, p.errorCount++ reads.
checkHealthFail ==
  /\ ~panicked
  /\ pc["monitor"] = "m_call"
  /\ \E code \in ErrorCodes : errCode' = code
  /\ tmpCount' = errorCount
  /\ pc' = [pc EXCEPT !["monitor"] = "m_incr"]
  /\ UNCHANGED <<config, endpointUp, startErr, loadVars>>
  /\ UNCHANGED <<recentAttempt, lastStatus, lockHolder, stopCalls,
                 panicked, prevPolled>>
  /\ UNCHANGED <<connVars, tombVars, chanVars, callVars>>

\* handleError: p.errorCount++ writes.
handleErrorCount ==
  /\ ~panicked
  /\ pc["monitor"] = "m_incr"
  /\ errorCount' = tmpCount + 1
  /\ otherRun' = IF classify(errCode) = "Other" THEN otherRun + 1 ELSE 0
  /\ pc' = [pc EXCEPT !["monitor"] =
              IF classify(errCode) = "Transient" THEN "m_mark" ELSE "m_thresh"]
  /\ tmpCount' = 0
  /\ UNCHANGED <<config, endpointUp, startErr, loadVars>>
  /\ UNCHANGED <<recentAttempt, lastStatus, lockHolder, stopCalls,
                 panicked, prevPolled, conn, connected, backoffAttempt,
                 metadata, openSessions,
                 errCode>>
  /\ UNCHANGED <<tombVars, chanVars, callVars>>

\* handleError keeping the lock after p.connected = false.
handleErrorTransientLocked ==
  /\ ~panicked
  /\ pc["monitor"] = "m_mark"
  /\ lockHolder = "none"
  /\ connected' = FALSE
  /\ lockHolder' = "monitor"
  /\ pc' = [pc EXCEPT !["monitor"] = "m_thresh"]
  /\ UNCHANGED <<config, endpointUp, startErr, loadVars>>
  /\ UNCHANGED <<recentAttempt, lastStatus, stopCalls,
                 panicked, prevPolled, conn, backoffAttempt, errorCount,
                 metadata, openSessions,
                 otherRun>>
  /\ UNCHANGED <<tombVars, chanVars, callVars, errVars>>

\* handleError, Unavailable / DeadlineExceeded: p.connected = false under
\* the lock.
handleErrorTransient ==
  /\ ~panicked
  /\ pc["monitor"] = "m_mark"
  /\ lockHolder = "none"
  /\ connected' = FALSE
  /\ pc' = [pc EXCEPT !["monitor"] = "m_thresh"]
  /\ UNCHANGED <<config, endpointUp, startErr, loadVars>>
  /\ UNCHANGED <<recentAttempt, lastStatus, lockHolder, stopCalls,
                 panicked, prevPolled, conn, backoffAttempt, errorCount,
                 metadata, openSessions,
                 otherRun>>
  /\ UNCHANGED <<tombVars, chanVars, callVars, errVars>>

\* The threshold test with > for >=.
handleErrorThresholdStrict ==
  /\ ~panicked
  /\ pc["monitor"] = "m_thresh"
  /\ pc' = [pc EXCEPT !["monitor"] =
              IF errorCount > config.errorThreshold THEN "r_enter" ELSE "m_select"]
  /\ errCode' = "none"
  /\ UNCHANGED <<config, endpointUp, startErr, loadVars>>
  /\ UNCHANGED <<recentAttempt, lastStatus, lockHolder, stopCalls,
                 panicked, prevPolled, tmpCount>>
  /\ UNCHANGED <<connVars, tombVars, chanVars, callVars>>

\* handleError: the threshold test; at or above it attemptReconnection is
\* called from this loop.
handleErrorThreshold ==
  /\ ~panicked
  /\ pc["monitor"] = "m_thresh"
  /\ pc' = [pc EXCEPT !["monitor"] =
              IF errorCount >= config.errorThreshold THEN "r_enter" ELSE "m_select"]
  /\ errCode' = "none"
  /\ UNCHANGED <<config, endpointUp, startErr, loadVars>>
  /\ UNCHANGED <<recentAttempt, lastStatus, lockHolder, stopCalls,
                 panicked, prevPolled, tmpCount>>
  /\ UNCHANGED <<connVars, tombVars, chanVars, callVars>>

\* ---------------------------------------------------- attemptReconnection
\* Where attemptReconnection returns to in its caller.
returnTo(self) ==
  IF self = "monitor" THEN "m_select" ELSE "h_select"

\* attemptReconnection with > for >= in its give-up test.
attemptReconnectionEnterStrict(self) ==
  /\ ~panicked
  /\ pc[self] = "r_enter"
  /\ lockHolder = "none"
  /\ IF recentAttempt
     THEN /\ pc' = [pc EXCEPT ![self] = returnTo(self)]
          /\ UNCHANGED <<recentAttempt, backoffAttempt, lockHolder>>
     ELSE /\ recentAttempt' = TRUE
          /\ IF backoffAttempt > config.maxAttempts
             THEN /\ lockHolder' = self
                  /\ pc' = [pc EXCEPT ![self] = "r_giveup"]
                  /\ UNCHANGED backoffAttempt
             ELSE /\ backoffAttempt' = backoffAttempt + 1
                  /\ lockHolder' = self
                  /\ pc' = [pc EXCEPT ![self] = "r_sleep"]
  /\ UNCHANGED <<config, endpointUp, startErr, loadVars>>
  /\ UNCHANGED <<lastStatus, stopCalls, panicked, prevPolled, conn,
                 connected, errorCount, metadata, openSessions, otherRun>>
  /\ UNCHANGED <<tombVars, chanVars, callVars, errVars>>

\* attemptReconnection up to time.Sleep: lock, debounce, give-up test,
\* backoffAttempt++.  It keeps the lock while it sleeps, and while it logs
\* that it gives up.
attemptReconnectionEnter(self) ==
  /\ ~panicked
  /\ pc[self] = "r_enter"
  /\ lockHolder = "none"
  /\ IF recentAttempt
     THEN /\ pc' = [pc EXCEPT ![self] = returnTo(self)]
          /\ UNCHANGED <<recentAttempt, backoffAttempt, lockHolder>>
     ELSE /\ recentAttempt' = TRUE
          /\ IF backoffAttempt >= config.maxAttempts
             THEN /\ lockHolder' = self
                  /\ pc' = [pc EXCEPT ![self] = "r_giveup"]
                  /\ UNCHANGED backoffAttempt
             ELSE /\ backoffAttempt' = backoffAttempt + 1
                  /\ lockHolder' = self
                  /\ pc' = [pc EXCEPT ![self] = "r_sleep"]
  /\ UNCHANGED <<config, endpointUp, startErr, loadVars>>
  /\ UNCHANGED <<lastStatus, stopCalls, panicked, prevPolled, conn,
                 connected, errorCount, metadata, openSessions, otherRun>>
  /\ UNCHANGED <<tombVars, chanVars, callVars, errVars>>

\* attemptReconnection's give-up return: the deferred Unlock runs.
attemptReconnectionGiveUp(self) ==
  /\ ~panicked
  /\ pc[self] = "r_giveup"
  /\ lockHolder = self
  /\ lockHolder' = "none"
  /\ pc' = [pc EXCEPT ![self] = returnTo(self)]
  /\ UNCHANGED <<config, endpointUp, startErr, loadVars>>
  /\ UNCHANGED <<recentAttempt, lastStatus, stopCalls, panicked, prevPolled>>
  /\ UNCHANGED <<connVars, tombVars, chanVars, callVars, errVars>>

\* attemptReconnection after the sleep: os.Stat of the socket, connectUnsafe,
\* unlock.
attemptReconnectionConnect(self) ==
  /\ ~panicked
  /\ pc[self] = "r_sleep"
  /\ lockHolder = self
  /\ \E socketExists \in BOOLEAN, dialOk \in BOOLEAN, metadataOk \in BOOLEAN :
       IF socketExists
       THEN connectUnsafe(dialOk, metadataOk)
       ELSE UNCHANGED connVars
  /\ lockHolder' = "none"
  /\ pc' = [pc EXCEPT ![self] = returnTo(self)]
  /\ UNCHANGED <<config, endpointUp, startErr, loadVars>>
  /\ UNCHANGED <<recentAttempt, lastStatus, stopCalls, panicked, prevPolled>>
  /\ UNCHANGED <<tombVars, chanVars, callVars, errVars>>

\* ---------------------------------------------------- healthCheckLoop
\* healthCheckLoop's select takes the ticker case.
healthCheckLoopTick ==
  /\ ~panicked
  /\ pc["health"] = "h_select"
  /\ pc' = [pc EXCEPT !["health"] = "h_tick"]
  /\ UNCHANGED <<config, endpointUp, startErr, loadVars>>
  /\ UNCHANGED <<recentAttempt, lastStatus, lockHolder, stopCalls,
                 panicked, prevPolled>>
  /\ UNCHANGED <<connVars, tombVars, chanVars, callVars, errVars>>

\* healthCheckLoop's select takes the Stopping case; it returns without
\* telling the tomb.
healthCheckLoopStop ==
  /\ ~panicked
  /\ pc["health"] = "h_select"
  /\ stopping
  /\ pc' = [pc EXCEPT !["health"] = "done"]
  /\ UNCHANGED <<config, endpointUp, startErr, loadVars>>
  /\ UNCHANGED <<recentAttempt, lastStatus, lockHolder, stopCalls,
                 panicked, prevPolled>>
  /\ UNCHANGED <<connVars, tombVars, chanVars, callVars, errVars>>

\* The tick calling attemptReconnection whatever isConnected returns.
healthCheckLoopCheckAlways ==
  /\ ~panicked
  /\ pc["health"] = "h_tick"
  /\ lockHolder = "none"
  /\ pc' = [pc EXCEPT !["health"] = "r_enter"]
  /\ UNCHANGED <<config, endpointUp, startErr, loadVars>>
  /\ UNCHANGED <<recentAttempt, lastStatus, lockHolder, stopCalls,
                 panicked, prevPolled>>
  /\ UNCHANGED <<connVars, tombVars, chanVars, callVars, errVars>>

\* The tick without its call of attemptReconnection.
healthCheckLoopCheckOnly ==
  /\ ~panicked
  /\ pc["health"] = "h_tick"
  /\ lockHolder = "none"
  /\ pc' = [pc EXCEPT !["health"] = "h_select"]
  /\ UNCHANGED <<config, endpointUp, startErr, loadVars>>
  /\ UNCHANGED <<recentAttempt, lastStatus, lockHolder, stopCalls,
                 panicked, prevPolled>>
  /\ UNCHANGED <<connVars, tombVars, chanVars, callVars, errVars>>

\* The tick's isConnected: live, nothing to do; not live, attemptReconnection.
healthCheckLoopCheck ==
  /\ ~panicked
  /\ pc["health"] = "h_tick"
  /\ lockHolder = "none"
  /\ pc' = [pc EXCEPT !["health"] = IF isConnected THEN "h_select" ELSE "r_enter"]
  /\ UNCHANGED <<config, endpointUp, startErr, loadVars>>
  /\ UNCHANGED <<recentAttempt, lastStatus, lockHolder, stopCalls,
                 panicked, prevPolled>>
  /\ UNCHANGED <<connVars, tombVars, chanVars, callVars, errVars>>

\* ------------------------------------------------------------------ Stop
\* Stop is called: isConnected decides whether the plugin is told.
stopBegin ==
  /\ ~panicked
  /\ pc["stop"] = "idle"
  /\ stopCalls < MaxStopCalls
  /\ lockHolder = "none"
  /\ stopCalls' = stopCalls + 1
  /\ pc' = [pc EXCEPT !["stop"] = IF isConnected THEN "s_rpc" ELSE "s_tomb"]
  /\ UNCHANGED <<config, endpointUp, startErr, loadVars>>
  /\ UNCHANGED <<recentAttempt, lastStatus, lockHolder, panicked, prevPolled>>
  /\ UNCHANGED <<connVars, tombVars, chanVars, callVars, errVars>>

\* p.client.Stop returns (or its 5 s deadline passes); a failure is logged.
stopNotify ==
  /\ ~panicked
  /\ pc["stop"] = "s_rpc"
  /\ pc' = [pc EXCEPT !["stop"] = "s_tomb"]
  /\ UNCHANGED <<config, endpointUp, startErr, loadVars>>
  /\ UNCHANGED <<recentAttempt, lastStatus, lockHolder, stopCalls,
                 panicked, prevPolled>>
  /\ UNCHANGED <<connVars, tombVars, chanVars, callVars, errVars>>

\* p.tomb.Stop, first half: close the stop channel (closing it twice panics).
stopSignal ==
  /\ ~panicked
  /\ pc["stop"] = "s_tomb"
  /\ IF stopping
     THEN panicked' = TRUE /\ UNCHANGED stopping
     ELSE stopping' = TRUE /\ UNCHANGED panicked
  /\ pc' = [pc EXCEPT !["stop"] = "s_wait"]
  /\ UNCHANGED <<config, endpointUp, startErr, loadVars>>
  /\ UNCHANGED <<recentAttempt, lastStatus, lockHolder, stopCalls,
                 prevPolled, done>>
  /\ UNCHANGED <<connVars, chanVars, callVars, errVars>>

\* p.tomb.Stop returning without the wait for the done channel.
stopWaitNoWait ==
  /\ ~panicked
  /\ pc["stop"] = "s_wait"
  /\ pc' = [pc EXCEPT !["stop"] = "s_conn"]
  /\ UNCHANGED <<config, endpointUp, startErr, loadVars>>
  /\ UNCHANGED <<recentAttempt, lastStatus, lockHolder, stopCalls,
                 panicked, prevPolled>>
  /\ UNCHANGED <<connVars, tombVars, chanVars, callVars, errVars>>

\* p.tomb.Stop, second half: wait for the done channel.
stopWait ==
  /\ ~panicked
  /\ pc["stop"] = "s_wait"
  /\ done
  /\ pc' = [pc EXCEPT !["stop"] = "s_conn"]
  /\ UNCHANGED <<config, endpointUp, startErr, loadVars>>
  /\ UNCHANGED <<recentAttempt, lastStatus, lockHolder, stopCalls,
                 panicked, prevPolled>>
  /\ UNCHANGED <<connVars, tombVars, chanVars, callVars, errVars>>

\* Stop closes the connection under the lock.
stopCloseConn ==
  /\ ~panicked
  /\ pc["stop"] = "s_conn"
  /\ lockHolder = "none"
  /\ conn' = "nil"
  /\ openSessions' = openSessions - (IF isOpen(conn) THEN 1 ELSE 0)
  /\ pc' = [pc EXCEPT !["stop"] = "s_chan"]
  /\ UNCHANGED <<config, endpointUp, startErr, loadVars>>
  /\ UNCHANGED <<recentAttempt, lastStatus, lockHolder, stopCalls,
                 panicked, prevPolled, connected, backoffAttempt, errorCount,
                 metadata, otherRun>>
  /\ UNCHANGED <<tombVars, chanVars, callVars, errVars>>

\* Stop closes the status channel (closing it twice panics) and returns.
stopCloseChan ==
  /\ ~panicked
  /\ pc["stop"] = "s_chan"
  /\ IF chanClosed
     THEN panicked' = TRUE /\ UNCHANGED chanClosed
     ELSE chanClosed' = TRUE /\ UNCHANGED panicked
  /\ pc' = [pc EXCEPT !["stop"] = "idle"]
  /\ UNCHANGED <<config, endpointUp, startErr, loadVars>>
  /\ UNCHANGED <<recentAttempt, lastStatus, lockHolder, stopCalls,
                 prevPolled, statusChan, lastPlaced, lastOutcome>>
  /\ UNCHANGED <<connVars, tombVars, callVars, errVars>>

\* ----------------------------------------------------------- environment
\* The gRPC channel leaves or regains the Ready/Idle states.
channelStateChange ==
  /\ ~panicked
  /\ conn \in {"live", "down"}
  /\ conn' = IF conn = "live" THEN "down" ELSE "live"
  /\ UNCHANGED <<config, endpointUp, startErr, loadVars>>
  /\ UNCHANGED <<recentAttempt, lastStatus, lockHolder, stopCalls,
                 panicked, prevPolled, pc, connected, backoffAttempt,
                 errorCount, metadata, openSessions, otherRun>>
  /\ UNCHANGED <<tombVars, chanVars, callVars, errVars>>

\* A second has passed since p.lastConnectAttempt.
secondPasses ==
  /\ ~panicked
  /\ recentAttempt
  /\ recentAttempt' = FALSE
  /\ UNCHANGED <<config, endpointUp, startErr, loadVars>>
  /\ UNCHANGED <<lastStatus, lockHolder, stopCalls, panicked,
                 prevPolled, pc>>
  /\ UNCHANGED <<connVars, tombVars, chanVars, callVars, errVars>>

\* The host receives the oldest Status of the channel.
hostReceive ==
  /\ ~panicked
  /\ Len(statusChan) > 0
  /\ statusChan' = Tail(statusChan)
  /\ UNCHANGED <<config, endpointUp, startErr, loadVars>>
  /\ UNCHANGED <<recentAttempt, lastStatus, lockHolder, stopCalls,
                 panicked, prevPolled, pc, chanClosed, lastPlaced, lastOutcome>>
  /\ UNCHANGED <<connVars, tombVars, callVars, errVars>>

\* ------------------------------------------------------------------ Next
Next ==
  \/ Start
  \/ sendInitialStatus
  \/ monitorLoopTick
  \/ monitorLoopStop
  \/ checkHealthSkip
  \/ checkHealthCall
  \/ checkHealthOk
  \/ checkHealthFail
  \/ handleErrorCount
  \/ handleErrorTransient
  \/ handleErrorThreshold
  \/ attemptReconnectionEnter("monitor")
  \/ attemptReconnectionEnter("health")
  \/ attemptReconnectionGiveUp("monitor")
  \/ attemptReconnectionGiveUp("health")
  \/ attemptReconnectionConnect("monitor")
  \/ attemptReconnectionConnect("health")
  \/ healthCheckLoopTick
  \/ healthCheckLoopStop
  \/ healthCheckLoopCheck
  \/ stopBegin
  \/ stopNotify
  \/ stopSignal
  \/ stopWait
  \/ stopCloseConn
  \/ stopCloseChan
  \/ channelStateChange
  \/ secondPasses
  \/ hostReceive

Spec == Init /\ [][Next]_vars

\* ------------------------------------------- loading a configuration
\* The caller of the package holds a loaded configuration, may apply the
\* defaults to it, and asks for a proxy.
InitConfig ==
  /\ rawConfig \in RawConfigs
  /\ outcome = [applied |-> 0, called |-> FALSE, proxy |-> <<>>, err |-> <<>>]
  /\ backoff = 0
  /\ config = "none"
  /\ conn = "nil"
  /\ connected = FALSE
  /\ recentAttempt = FALSE
  /\ backoffAttempt = 0
  /\ errorCount = 0
  /\ sequenceNumber = 0
  /\ lastStatus = <<>>
  /\ metadata = "nil"
  /\ openSessions = 0
  /\ statusChan = <<>>
  /\ chanClosed = FALSE
  /\ stopping = FALSE
  /\ done = FALSE
  /\ lockHolder = "none"
  /\ pc = [monitor |-> "new", health |-> "new", stop |-> "new"]
  /\ reqSeq = 0
  /\ reqParams = <<>>
  /\ errCode = "none"
  /\ tmpCount = 0
  /\ startErr = "none"
  /\ stopCalls = 0
  /\ panicked = FALSE
  /\ nCalls = 0
  /\ prevPolled = <<>>
  /\ lastPlaced = <<>>
  /\ lastOutcome = "none"
  /\ otherRun = 0
  /\ endpointUp = FALSE

\* The caller calls config.ApplyConfiguration().
applyConfiguration ==
  /\ ~outcome.called
  /\ outcome.applied < MaxApply
  /\ rawConfig' = ApplyConfiguration(rawConfig)
  /\ outcome' = [outcome EXCEPT !.applied = @ + 1]
  /\ UNCHANGED <<config, endpointUp, startErr, backoff>>
  /\ UNCHANGED <<recentAttempt, lastStatus, lockHolder, stopCalls,
                 panicked, prevPolled, pc>>
  /\ UNCHANGED <<connVars, tombVars, chanVars, callVars, errVars>>

\* The caller calls NewExternalMonitorProxy(config).
newExternalMonitorProxy ==
  /\ ~outcome.called
  /\ outcome' = [outcome EXCEPT
                   !.called = TRUE,
                   !.proxy = NewExternalMonitorProxy(rawConfig).proxy,
                   !.err = NewExternalMonitorProxy(rawConfig).err]
  /\ UNCHANGED <<config, endpointUp, startErr, rawConfig, backoff>>
  /\ UNCHANGED <<recentAttempt, lastStatus, lockHolder, stopCalls,
                 panicked, prevPolled, pc>>
  /\ UNCHANGED <<connVars, tombVars, chanVars, callVars, errVars>>

NextConfig ==
  \/ applyConfiguration
  \/ newExternalMonitorProxy

SpecConfig == InitConfig /\ [][NextConfig]_vars

\* ------------------------------------------------ the backoff schedule
\* A proxy whose reconnection attempts fail one after the other, or succeed
\* and start the schedule anew; only the retry policy of its configuration
\* and the attempt counter matter.
InitBackoff ==
  /\ config \in RetryPolicies
  /\ rawConfig = "none"
  /\ outcome = "none"
  /\ backoff = 0
  /\ conn = "nil"
  /\ connected = FALSE
  /\ recentAttempt = FALSE
  /\ backoffAttempt = 0
  /\ errorCount = 0
  /\ sequenceNumber = 0
  /\ lastStatus = <<>>
  /\ metadata = "nil"
  /\ openSessions = 0
  /\ statusChan = <<>>
  /\ chanClosed = FALSE
  /\ stopping = FALSE
  /\ done = FALSE
  /\ lockHolder = "none"
  /\ pc = [monitor |-> "m_select", health |-> "h_select", stop |-> "idle"]
  /\ reqSeq = 0
  /\ reqParams = <<>>
  /\ errCode = "none"
  /\ tmpCount = 0
  /\ startErr = "nil"
  /\ stopCalls = 0
  /\ panicked = FALSE
  /\ nCalls = 0
  /\ prevPolled = <<>>
  /\ lastPlaced = <<>>
  /\ lastOutcome = "none"
  /\ otherRun = 0
  /\ endpointUp = FALSE

\* attemptReconnection computing the delay from backoffAttempt after the
\* increment.
attemptReconnectionBackoffLate ==
  /\ pc["health"] = "h_select"
  /\ lockHolder = "none"
  /\ backoffAttempt < config.maxAttempts
  /\ \E arch \in {"amd64", "arm64"} :
       backoff' = backoffDelay(config, backoffAttempt + 1, arch)
  /\ backoffAttempt' = backoffAttempt + 1
  /\ lockHolder' = "health"
  /\ pc' = [pc EXCEPT !["health"] = "r_sleep"]
  /\ UNCHANGED <<config, endpointUp, startErr, rawConfig, outcome>>
  /\ UNCHANGED <<recentAttempt, lastStatus, stopCalls, panicked, prevPolled>>
  /\ UNCHANGED <<conn, connected, errorCount, metadata, openSessions, otherRun>>
  /\ UNCHANGED <<tombVars, chanVars, callVars, errVars>>

\* attemptReconnection, called by the health loop, from its give-up test to
\* its sleep: the delay is computed from backoffAttempt, then
\* backoffAttempt++.
attemptReconnectionBackoff ==
  /\ pc["health"] = "h_select"
  /\ lockHolder = "none"
  /\ backoffAttempt < config.maxAttempts
  /\ \E arch \in {"amd64", "arm64"} :
       backoff' = backoffDelay(config, backoffAttempt, arch)
  /\ backoffAttempt' = backoffAttempt + 1
  /\ lockHolder' = "health"
  /\ pc' = [pc EXCEPT !["health"] = "r_sleep"]
  /\ UNCHANGED <<config, endpointUp, startErr, rawConfig, outcome>>
  /\ UNCHANGED <<recentAttempt, lastStatus, stopCalls, panicked, prevPolled>>
  /\ UNCHANGED <<conn, connected, errorCount, metadata, openSessions, otherRun>>
  /\ UNCHANGED <<tombVars, chanVars, callVars, errVars>>

\* ------------------------------------------------- a plugin that comes back
\* The running proxy with an environment that, from some point on, keeps the
\* socket in place, lets every grpc.Dial succeed and keeps the channel out of
\* the failure states; Stop is not called.
RecoveryConfigs ==
  {c \in Configs : c.skipInitialStatus /\ c.errorThreshold = 1}

InitRecovery == Init /\ config \in RecoveryConfigs

\* The plugin is back for good.
endpointComesUp ==
  /\ ~panicked
  /\ pc["stop"] = "idle"
  /\ ~endpointUp
  /\ endpointUp' = TRUE
  /\ UNCHANGED <<config, recentAttempt, lastStatus, lockHolder, stopCalls,
                 panicked, prevPolled, pc, loadVars, startErr>>
  /\ UNCHANGED <<connVars, tombVars, chanVars, callVars, errVars>>

\* attemptReconnection after the sleep; once the plugin is back for good
\* os.Stat finds the socket and connectUnsafe's dial succeeds.
recoveryConnect(self) ==
  /\ attemptReconnectionConnect(self)
  /\ endpointUp => (conn' = "live" /\ backoffAttempt' = 0)

\* The channel changes state; once the plugin is back for good it only
\* returns to Ready/Idle.
recoveryChannelStateChange ==
  /\ channelStateChange
  /\ endpointUp => conn' = "live"

NextRecovery ==
  \/ Start
  \/ sendInitialStatus
  \/ monitorLoopTick
  \/ checkHealthSkip
  \/ checkHealthCall
  \/ checkHealthOk
  \/ checkHealthFail
  \/ handleErrorCount
  \/ handleErrorTransient
  \/ handleErrorThreshold
  \/ attemptReconnectionEnter("monitor")
  \/ attemptReconnectionEnter("health")
  \/ attemptReconnectionGiveUp("monitor")
  \/ attemptReconnectionGiveUp("health")
  \/ recoveryConnect("monitor")
  \/ recoveryConnect("health")
  \/ healthCheckLoopTick
  \/ healthCheckLoopCheck
  \/ recoveryChannelStateChange
  \/ secondPasses
  \/ hostReceive
  \/ endpointComesUp

\* Both goroutines are scheduled, their tickers fire, calls and sleeps end,
\* and time passes.
RecoveryFairness ==
  /\ WF_vars(sendInitialStatus)
  /\ WF_vars(monitorLoopTick)
  /\ WF_vars(checkHealthSkip)
  /\ WF_vars(checkHealthCall)
  /\ WF_vars(checkHealthOk \/ checkHealthFail)
  /\ WF_vars(handleErrorCount)
  /\ WF_vars(handleErrorTransient)
  /\ WF_vars(handleErrorThreshold)
  /\ \A self \in {"monitor", "health"} :
       /\ WF_vars(attemptReconnectionEnter(self))
       /\ WF_vars(attemptReconnectionGiveUp(self))
       /\ WF_vars(recoveryConnect(self))
  /\ WF_vars(healthCheckLoopTick)
  /\ WF_vars(healthCheckLoopCheck)
  /\ WF_vars(secondPasses)

SpecRecovery == InitRecovery /\ [][NextRecovery]_vars /\ RecoveryFairness

\* ------------------------------------------------------------ properties
\* A Stop call has returned.
StopReturned ==
  stopCalls >= 1 /\ (pc["stop"] = "idle" \/ stopCalls >= 2)

\* The monitor loop takes a step.
MonitorStep == pc'["monitor"] # pc["monitor"]

\* checkHealth's call returns a Status and checkHealth runs to its end.
PollSucceeds == pc["monitor"] = "m_call" /\ pc'["monitor"] = "m_select"

\* Two condition lists differ in length or, at some position, in type,
\* status, reason or message.
CondsDiffer(a, b) ==
  \/ Len(a) # Len(b)
  \/ \E i \in 1..Len(a) :
       <<a[i].type, a[i].status, a[i].reason, a[i].message>>
         # <<b[i].type, b[i].status, b[i].reason, b[i].message>>

\* The step appends the polled Status to the channel.
PollEmitted == statusChan' = Append(statusChan, prevPolled'[1])

\* The polled Status differs in Conditions from the poll before or has Events.
PollChanged ==
  \/ CondsDiffer(prevPolled[1].conditions, prevPolled'[1].conditions)
  \/ Len(prevPolled'[1].events) > 0

\* C1 as stated: for consecutive successful polls A then B, a Status is
\* emitted for B if and only if A and B differ in Conditions or B has an Event.
C1_EmissionLawAsStated ==
  [][(PollSucceeds /\ prevPolled # <<>>) => (PollEmitted <=> PollChanged)]_vars

\* C1 amended: for consecutive successful polls A then B that complete before
\* shutdown is signalled, a Status is emitted for B if and only if (A and B
\* differ in Conditions or B has an Event) and the channel has room; with the
\* channel full B is dropped, and with A = B and no Events nothing is emitted.
C1_EmissionLaw ==
  [][(PollSucceeds /\ prevPolled # <<>> /\ ~stopping) =>
       /\ PollEmitted <=> (PollChanged /\ Len(statusChan) < ChanCap)
       /\ ~PollEmitted => statusChan' = statusChan]_vars

\* C1 witness: a second successful poll has been suppressed (same Conditions,
\* no Events) after a first one set the reference.
C1_Witness ==
  /\ config.skipInitialStatus
  /\ sequenceNumber >= 2
  /\ lastOutcome = "suppressed"
  /\ ~stopping
  /\ pc["monitor"] = "m_select"

\* C2: the sequence number carried by the N-th CheckHealth call is N, and
\* the counter always equals the number of calls issued (so it never
\* decreases and is never reset).
C2_SequenceIsCallIndex ==
  reqSeq = nCalls /\ sequenceNumber = nCalls

\* C2 witness: a second call is in flight after a failed one.
C2_Witness ==
  pc["monitor"] = "m_call" /\ nCalls >= 2 /\ errorCount >= 1

\* C3 as stated: once Stop has returned the status loop has exited and the
\* Transport Session is closed, in every later state.
C3_FullyStoppedAsStated ==
  StopReturned => (pc["monitor"] = "done" /\ conn \notin {"live", "down"})

\* C4 as stated: Stop closes the session and the stream only after both
\* loops have exited.
C4_StopOrderAsStated ==
  (pc["stop"] \in {"s_conn", "s_chan"} \/ chanClosed) =>
    (stopping /\ pc["monitor"] = "done" /\ pc["health"] = "done")

\* C5 as stated: a Stop call on a stopped proxy does not panic.
C5_SecondStopAsStated ==
  stopCalls >= 2 => ~panicked

\* The status loop runs sendInitialStatus, or checkHealth from the return
\* of a successful call to its end.
EmissionStep ==
  pc["monitor"] \in {"m_init", "m_call"} /\ pc'["monitor"] \notin {"m_call", "m_incr"}

\* C6: the channel never holds more than its capacity, and an emission step
\* of the status loop that finds the channel full leaves the channel as it
\* is (the Status, if one was to be sent, is dropped), raises nothing, and
\* returns the loop to its select.
C6_NeverBlocksNeverOverflows ==
  [][/\ Len(statusChan') <= ChanCap
     /\ (EmissionStep /\ Len(statusChan) >= ChanCap) =>
          (statusChan' = statusChan /\ lastOutcome' # "sent" /\ ~panicked'
           /\ pc'["monitor"] = "m_select")]_vars

\* C6 witness: a Status has been dropped on a full channel and the loop is
\* back at its select.
C6_Witness ==
  /\ lastOutcome = "dropped"
  /\ Len(statusChan) = ChanCap
  /\ pc["monitor"] = "m_select"
  /\ ~panicked

\* The status loop leaves handleError's threshold test.
ThresholdStep == pc["monitor"] = "m_thresh" /\ MonitorStep

\* C7 as stated: the status loop invokes the reconnection procedure after an
\* error exactly when that error completes T consecutive Other errors.
C7_ThresholdTripAsStated ==
  [][ThresholdStep =>
       (pc'["monitor"] = "r_enter" <=> otherRun >= config.errorThreshold)]_vars

\* C7 amended: after a failed call the status loop invokes the reconnection
\* procedure exactly when consecutiveErrors, which every failed call of any
\* class increments, has reached T; T consecutive Other errors with no
\* successful call or connection in between always reach it.
C7_ThresholdTrip ==
  [][ThresholdStep =>
       /\ pc'["monitor"] = "r_enter" <=> errorCount >= config.errorThreshold
       /\ otherRun >= config.errorThreshold => pc'["monitor"] = "r_enter"]_vars

\* C7 witness: the second of two consecutive Other errors, threshold 2, has
\* sent the status loop into the reconnection procedure.
C7_Witness ==
  /\ config.errorThreshold = 2
  /\ otherRun = 2
  /\ pc["monitor"] = "r_enter"

\* C8 as stated: handling an Unsupported error leaves consecutiveErrors as
\* it was and does not trip the forced reconnection.
C8_UnsupportedAsStated ==
  [][(MonitorStep /\ pc["monitor"] \in {"m_incr", "m_thresh"}
      /\ classify(errCode) = "Unsupported") =>
       (errorCount' = errorCount /\ pc'["monitor"] # "r_enter")]_vars

\* C9 as stated: a health-loop tick that finds connected = false invokes
\* the reconnection procedure.
C9_TransientAsStated ==
  [][(pc["health"] = "h_tick" /\ pc'["health"] # "h_tick" /\ ~connected) =>
       pc'["health"] = "r_enter"]_vars

\* C10 as stated: the reference for change detection is the Status most
\* recently placed in the channel (or one with the same Conditions).
C10_LastSentAsStated ==
  lastStatus # <<>> =>
    (lastPlaced # <<>>
     /\ ~CondsDiffer(lastStatus[1].conditions, lastPlaced[1].conditions))

\* backoffAttempt has reached maxAttempts and no reconnection attempt is
\* between its backoffAttempt++ and its dial.
GivenUp ==
  /\ backoffAttempt >= config.maxAttempts
  /\ \A self \in Procs : pc[self] # "r_sleep"

\* C11 as stated: once backoffAttempt has reached maxAttempts it stays as it
\* is, for the rest of the proxy's life.
C11_GiveUpAsStated ==
  [][backoffAttempt >= config.maxAttempts =>
       backoffAttempt' = backoffAttempt]_vars

\* C11 amended: once backoffAttempt has reached maxAttempts and the attempt
\* that raised it has ended without a session, that is so for ever: every
\* later invocation of attemptReconnection, from either loop, returns from
\* its debounce or give-up test, never reaches the dial, and leaves
\* backoffAttempt and the stored metadata as they are.
C11_GiveUpPermanent ==
  [][GivenUp =>
       /\ GivenUp'
       /\ backoffAttempt' = backoffAttempt
       /\ metadata' = metadata
       /\ \A self \in {"monitor", "health"} :
            (pc[self] = "r_enter" /\ pc'[self] # "r_enter") =>
              pc'[self] \in {"r_giveup", returnTo(self)}]_vars

\* C11 witness: after giving up, an invocation from the status loop's
\* threshold trip has taken the give-up return.
C11_Witness ==
  /\ GivenUp
  /\ pc["monitor"] = "r_giveup"
  /\ errorCount >= config.errorThreshold

\* The plugin is back for good, the session is not live, and attempts are
\* left.
RecoveryDue ==
  endpointUp /\ ~isConnected /\ backoffAttempt < config.maxAttempts

\* C12: when the session is not live, backoffAttempt is below maxAttempts
\* and from then on the endpoint exists and opening a session succeeds, the
\* proxy eventually has a live session and the status loop issues a further
\* CheckHealth call (while calls are left in the behaviour).
C12_Recovery ==
  \A n \in 0..(MaxCalls - 1) :
    (RecoveryDue /\ nCalls = n) ~> (isConnected /\ nCalls > n)

\* C12 witness: with the plugin back for good, a call is in flight on a
\* session that attemptReconnection opened less than a second ago (only a
\* successful connectUnsafe takes backoffAttempt back to 0 after an attempt).
C12_Witness ==
  /\ endpointUp
  /\ isConnected
  /\ recentAttempt
  /\ backoffAttempt = 0
  /\ pc["health"] = "h_select"
  /\ pc["monitor"] = "m_call"

\* A configuration violates one of the rules of a valid Configuration.
ViolatesARule(c) ==
  \/ c.invokeInterval < Second
  \/ c.timeout < Second
  \/ ~(c.timeout < c.invokeInterval)
  \/ c.backoffMultiplier.num < c.backoffMultiplier.den
  \/ c.maxAttempts < 1
  \/ c.errorThreshold < 1
  \/ \E i \in 1..Len(c.conditions) :
       "" \in {c.conditions[i].type, c.conditions[i].reason,
               c.conditions[i].message}

\* C13: Validate rejects every configuration that violates a rule (poll
\* interval and call timeout at least a second, timeout below the interval,
\* multiplier at least 1.0, max attempts and error threshold at least 1,
\* conditions complete), and NewExternalMonitorProxy, called on it, has
\* returned an error and no proxy.
C13_InvalidIsRejected ==
  ViolatesARule(rawConfig) =>
    /\ Validate(rawConfig) # "nil"
    /\ outcome.called => (outcome.proxy = <<>> /\ outcome.err # <<>>)

\* C13 witness: NewExternalMonitorProxy has refused a configuration whose
\* only fault is a timeout equal to the poll interval.
C13_Witness ==
  /\ outcome.called
  /\ outcome.proxy = <<>>
  /\ outcome.err
       = <<"invalid configuration", "timeout must be less than invoke_interval">>
  /\ rawConfig.timeout = rawConfig.invokeInterval

\* min(b * m^i, maxBackoff), cut to a whole number of duration units.
LawDelay(policy, i) ==
  LET n == policy.initialBackoff * Pow(policy.backoffMultiplier.num, i)
      d == Pow(policy.backoffMultiplier.den, i)
  IN  IF n >= policy.maxBackoff * d THEN policy.maxBackoff ELSE n \div d

\* C14 as stated: the delay computed for attempt index i is
\* min(b * m^i, maxBackoff), and from one attempt to the next of a run of
\* failed attempts the delay does not decrease.
C14_BackoffLawAsStated ==
  [][(backoffAttempt' = backoffAttempt + 1) =>
       /\ backoff' = LawDelay(config, backoffAttempt)
       /\ backoffAttempt > 0 => backoff' >= backoff]_vars

\* C15: once Start has returned, it has returned a nil error and both loops
\* have been launched, whether or not the initial connection succeeded; and
\* no step of either loop (a failed call, a failed reconnection, a dropped
\* Status) panics or changes what Start returned: a panic comes only from a
\* step of the caller's own Stop.
C15_StartNeverFails ==
  [][/\ pc'["stop"] # "new" =>
          (startErr' = "nil" /\ pc'["monitor"] # "new" /\ pc'["health"] # "new")
     /\ (pc["stop"] # "new" /\ pc'["stop"] = pc["stop"]) =>
          (startErr' = startErr /\ panicked' = panicked)]_vars

\* C15 witness: Start has returned nil although no session could be opened,
\* a reconnection attempt of the health loop has failed since, and the
\* status loop is running.
C15_Witness ==
  /\ startErr = "nil"
  /\ stopCalls = 0
  /\ conn = "nil"
  /\ backoffAttempt >= 1
  /\ pc["health"] = "h_select"
  /\ pc["monitor"] = "m_select"
  /\ ~panicked

\* The status loop runs its step before the first tick.
InitialStep == pc["monitor"] = "m_init" /\ pc'["monitor"] # "m_init"

\* Status st holds one Condition per declared definition, in declaration
\* order, each False with the declared reason and message, and no Event.
IsSynthetic(st, cfg) ==
  /\ Len(st.conditions) = Len(cfg.conditions)
  /\ Len(st.events) = 0
  /\ \A i \in 1..Len(cfg.conditions) :
       /\ st.conditions[i].type = cfg.conditions[i].type
       /\ st.conditions[i].status = "False"
       /\ st.conditions[i].reason = cfg.conditions[i].reason
       /\ st.conditions[i].message = cfg.conditions[i].message

\* The step puts one synthetic Status in the still unused channel and
\* makes it the reference.
InitialEmitted ==
  /\ statusChan = <<>>
  /\ lastPlaced = <<>>
  /\ nCalls = 0
  /\ Len(statusChan') = 1
  /\ IsSynthetic(statusChan'[1], config)
  /\ lastStatus' = <<statusChan'[1]>>

\* The step puts nothing in the channel and sets no reference.
InitialOmitted == statusChan' = statusChan /\ lastStatus' = lastStatus

\* C16 as stated: unless the configuration disables it, the step before the
\* first tick emits one synthetic Status, first in the stream, which becomes
\* the reference; when disabled, nothing is emitted.
C16_InitialStatusAsStated ==
  [][InitialStep =>
       IF config.skipInitialStatus THEN InitialOmitted ELSE InitialEmitted]_vars

\* C16 amended: the step before the first tick emits the synthetic Status,
\* first in the stream and the new reference, when the initial status is
\* not disabled, at least one condition is declared and shutdown has not
\* been signalled; it emits nothing and sets no reference when the initial
\* status is disabled or no condition is declared; once shutdown has been
\* signalled it does the one or the other.
C16_InitialStatus ==
  [][InitialStep =>
       IF config.skipInitialStatus \/ Len(config.conditions) = 0
       THEN InitialOmitted
       ELSE IF stopping
            THEN InitialEmitted \/ InitialOmitted
            ELSE InitialEmitted]_vars

\* C16 witness: the synthetic Status is in the channel, is the reference,
\* and no CheckHealth call has been issued yet.
C16_Witness ==
  /\ ~config.skipInitialStatus
  /\ Len(config.conditions) = 1
  /\ pc["monitor"] = "m_select"
  /\ nCalls = 0
  /\ Len(statusChan) = 1
  /\ IsSynthetic(statusChan[1], config)
  /\ lastStatus = <<statusChan[1]>>
  /\ ~stopping

\* The caller's step is a call of ApplyConfiguration.
ApplyStep == outcome'.applied = outcome.applied + 1

\* The documented defaults: poll interval 30 s, call timeout 10 s, max
\* attempts 5, multiplier 2.0, max backoff 5 min, initial backoff 1 s,
\* health-probe interval 30 s, health-probe timeout 5 s, error threshold 3.
DocumentedDefaults ==
  [invokeInterval |-> 30 * Second, timeout |-> 10 * Second, maxAttempts |-> 5,
   backoffMultiplier |-> [num |-> 2, den |-> 1], maxBackoff |-> 300 * Second,
   initialBackoff |-> Second, healthInterval |-> 30 * Second,
   healthTimeout |-> 5 * Second, errorThreshold |-> 3]

\* The zero value of each of these fields.
ZeroValues ==
  [invokeInterval |-> 0, timeout |-> 0, maxAttempts |-> 0,
   backoffMultiplier |-> [num |-> 0, den |-> 1], maxBackoff |-> 0,
   initialBackoff |-> 0, healthInterval |-> 0, healthTimeout |-> 0,
   errorThreshold |-> 0]

\* C17: a call of ApplyConfiguration replaces each zero-valued field by its
\* documented default, leaves each non-zero one of these fields and the
\* plugin, source, endpoint and conditions unchanged; a second call changes
\* nothing; and a configuration with valid plugin, source and endpoint whose
\* other fields were all zero passes Validate after the call.
C17_Defaults ==
  [][ApplyStep =>
       /\ \A f \in DOMAIN ZeroValues :
            rawConfig'[f] = IF rawConfig[f] = ZeroValues[f]
                            THEN DocumentedDefaults[f]
                            ELSE rawConfig[f]
       /\ \A f \in {"plugin", "source", "socketAddress", "conditions"} :
            rawConfig'[f] = rawConfig[f]
       /\ outcome.applied >= 1 => rawConfig' = rawConfig
       /\ ApplyConfiguration(rawConfig') = rawConfig'
       /\ ( /\ \A f \in DOMAIN ZeroValues : rawConfig[f] = ZeroValues[f]
            /\ rawConfig.conditions = <<>>
            /\ rawConfig.plugin = "external"
            /\ rawConfig.source # ""
            /\ rawConfig.socketAddress # "" )
           => Validate(rawConfig') = "nil"]_vars

\* C17 witness: ApplyConfiguration has been called twice on a configuration
\* that now holds every documented default, and NewExternalMonitorProxy has
\* accepted it.
C17_Witness ==
  /\ outcome.applied = 2
  /\ outcome.called
  /\ outcome.proxy # <<>>
  /\ \A f \in DOMAIN DocumentedDefaults : rawConfig[f] = DocumentedDefaults[f]
  /\ rawConfig.conditions = <<>>

\* Status st holds the Condition GPUHealthy / True / GPUOverheating and the
\* Event of the threshold breach.
HoldsOverheating(st) ==
  /\ \E i \in 1..Len(st.conditions) :
       /\ st.conditions[i].type = "GPUHealthy"
       /\ st.conditions[i].status = "True"
       /\ st.conditions[i].reason = "GPUOverheating"
  /\ \E i \in 1..Len(st.events) :
       /\ st.events[i].severity = "Warn"
       /\ st.events[i].reason = "GPUOverheating"

\* The plugin has answered the call with its overheating Status.
OverheatingAnswered ==
  PollSucceeds /\ prevPolled' = <<convertStatus(WireHotEvent)>>

\* The step appends one Status with the overheating Condition and Event to
\* the channel and makes it the reference.
OverheatingEmitted ==
  /\ Len(statusChan') = Len(statusChan) + 1
  /\ HoldsOverheating(statusChan'[Len(statusChan')])
  /\ lastStatus' = <<statusChan'[Len(statusChan')]>>

\* Every request in flight holds the configured plugin parameters.
RequestCarriesParameters ==
  pc'["monitor"] = "m_call" => reqParams' = config.pluginParameters

ConnectionState == <<connected, recentAttempt, backoffAttempt, errorCount>>

\* Process p takes the step and no other process holds the lock meanwhile.
WritesUnderLock(p) ==
  (pc'[p] # pc[p] /\ ConnectionState' # ConnectionState) =>
    lockHolder \in {"none", p}

\* C19 as stated: every write to a ConnectionState field is made by the
\* holder of the lock, and the status loop's p.errorCount++ is not
\* interleaved with another write of the counter: the value it has read is
\* still the counter's value when it writes.
C19_WritesUnderLockAsStated ==
  [][/\ \A p \in Procs : WritesUnderLock(p)
     /\ pc["monitor"] = "m_incr" => tmpCount = errorCount]_vars

\* The step in which process p reads p.client to issue a remote call:
\* checkHealth's CheckHealth, Stop's Stop.
ReadsClient(p) ==
  \/ p = "monitor" /\ pc["monitor"] = "m_tick" /\ pc'["monitor"] = "m_call"
  \/ p = "stop" /\ pc["stop"] = "s_rpc" /\ pc'["stop"] # "s_rpc"

\* Process q holds the lock inside attemptReconnection, before the
\* connectUnsafe that assigns p.conn and p.client.
ReplacingClient(q) == lockHolder = q /\ pc[q] = "r_sleep"

\* C20 as stated: no loop and no Stop caller reads the client to issue a
\* remote call while another process holds the lock for a reconnection
\* that replaces it.
C20_SessionSerializedAsStated ==
  [][\A p \in Procs :
       ReadsClient(p) => ~(\E q \in Procs \ {p} : ReplacingClient(q))]_vars

\* The health loop is inside attemptReconnection's time.Sleep(backoff).
HealthWaitsBackoff == pc["health"] = "r_sleep" /\ lockHolder = "health"

\* C21 as stated: while a reconnection started by the health loop waits out
\* its backoff delay, a status tick that has arrived can make its
\* connectivity check and complete (skip or poll) without waiting for the
\* delay to end.
C21_StatusLoopNotHeldUpAsStated ==
  (HealthWaitsBackoff /\ pc["monitor"] = "m_tick" /\ ~panicked) =>
    ENABLED (checkHealthSkip \/ checkHealthCall)

\* C22: at most one Transport Session is open at any time, and an open
\* session is the one p.conn points to: none is left open and unreferenced,
\* whatever the interleaving of the initial connect, the reconnections of
\* both loops and Stop.
C22_OneSession ==
  /\ openSessions \in {0, 1}
  /\ openSessions = (IF isOpen(conn) THEN 1 ELSE 0)

\* C22 witness: a reconnection has replaced an earlier session (the counters
\* are those of a fresh connection, a call had been made on the earlier
\* one) and one session is open.
C22_Witness ==
  /\ openSessions = 1
  /\ conn = "live"
  /\ recentAttempt
  /\ backoffAttempt = 0
  /\ nCalls > 0
  /\ lockHolder = "none"

\* ------------------------------------------- the steps of a reconnection
\* The running proxy with attemptReconnection taken one statement at a time:
\* the call of Lock that finds the mutex held, the outcome of os.Stat and
\* connectUnsafe, and the return with its deferred Unlock are positions of
\* their own.
SessionConfigs ==
  {c \in Configs : c.conditions # <<>> /\ c.errorThreshold = 1}

InitSession == Init /\ config \in SessionConfigs

\* attemptReconnection calls Lock while the other loop holds the mutex.
attemptReconnectionLock(self) ==
  /\ ~panicked
  /\ pc[self] = "r_enter"
  /\ lockHolder \notin {"none", self}
  /\ pc' = [pc EXCEPT ![self] = "r_blocked"]
  /\ UNCHANGED <<config, endpointUp, startErr, loadVars>>
  /\ UNCHANGED <<recentAttempt, lastStatus, lockHolder, stopCalls,
                 panicked, prevPolled>>
  /\ UNCHANGED <<connVars, tombVars, chanVars, callVars, errVars>>

\* attemptReconnection without its debounce test, once the Lock is granted.
attemptReconnectionResumeAlways(self) ==
  /\ ~panicked
  /\ pc[self] = "r_blocked"
  /\ lockHolder = "none"
  /\ IF FALSE
     THEN /\ pc' = [pc EXCEPT ![self] = returnTo(self)]
          /\ UNCHANGED <<recentAttempt, backoffAttempt, lockHolder>>
     ELSE /\ recentAttempt' = TRUE
          /\ IF backoffAttempt >= config.maxAttempts
             THEN /\ lockHolder' = self
                  /\ pc' = [pc EXCEPT ![self] = "r_giveup"]
                  /\ UNCHANGED backoffAttempt
             ELSE /\ backoffAttempt' = backoffAttempt + 1
                  /\ lockHolder' = self
                  /\ pc' = [pc EXCEPT ![self] = "r_sleep"]
  /\ UNCHANGED <<config, endpointUp, startErr, loadVars>>
  /\ UNCHANGED <<lastStatus, stopCalls, panicked, prevPolled, conn,
                 connected, errorCount, metadata, openSessions, otherRun>>
  /\ UNCHANGED <<tombVars, chanVars, callVars, errVars>>

\* The Lock is granted after the wait: the debounce test, the give-up test,
\* the backoff and backoffAttempt++.
attemptReconnectionResume(self) ==
  /\ ~panicked
  /\ pc[self] = "r_blocked"
  /\ lockHolder = "none"
  /\ IF recentAttempt
     THEN /\ pc' = [pc EXCEPT ![self] = returnTo(self)]
          /\ UNCHANGED <<recentAttempt, backoffAttempt, lockHolder>>
     ELSE /\ recentAttempt' = TRUE
          /\ IF backoffAttempt >= config.maxAttempts
             THEN /\ lockHolder' = self
                  /\ pc' = [pc EXCEPT ![self] = "r_giveup"]
                  /\ UNCHANGED backoffAttempt
             ELSE /\ backoffAttempt' = backoffAttempt + 1
                  /\ lockHolder' = self
                  /\ pc' = [pc EXCEPT ![self] = "r_sleep"]
  /\ UNCHANGED <<config, endpointUp, startErr, loadVars>>
  /\ UNCHANGED <<lastStatus, stopCalls, panicked, prevPolled, conn,
                 connected, errorCount, metadata, openSessions, otherRun>>
  /\ UNCHANGED <<tombVars, chanVars, callVars, errVars>>

\* attemptReconnection calling connectUnsafe whether or not os.Stat finds
\* the socket.
attemptReconnectionOpenAnyway(self) ==
  /\ ~panicked
  /\ pc[self] = "r_sleep"
  /\ lockHolder = self
  /\ \E socketExists \in BOOLEAN, dialOk \in BOOLEAN, metadataOk \in BOOLEAN :
       /\ connectUnsafe(dialOk, metadataOk)
       /\ pc' = [pc EXCEPT ![self] = IF ~socketExists THEN "r_absent"
                                     ELSE IF ~dialOk THEN "r_failed"
                                     ELSE IF metadataOk THEN "r_ok"
                                     ELSE "r_warn"]
  /\ UNCHANGED <<config, endpointUp, startErr, loadVars>>
  /\ UNCHANGED <<recentAttempt, lastStatus, lockHolder, stopCalls,
                 panicked, prevPolled>>
  /\ UNCHANGED <<tombVars, chanVars, callVars, errVars>>

\* attemptReconnection after the sleep: os.Stat of the socket and, when it
\* is there, connectUnsafe, which returns nil with the metadata fetched
\* (r_ok) or with the fetch's failure logged (r_warn), or the error of the
\* dial (r_failed); the mutex stays held.
attemptReconnectionOpen(self) ==
  /\ ~panicked
  /\ pc[self] = "r_sleep"
  /\ lockHolder = self
  /\ \E socketExists \in BOOLEAN, dialOk \in BOOLEAN, metadataOk \in BOOLEAN :
       IF socketExists
       THEN /\ connectUnsafe(dialOk, metadataOk)
            /\ pc' = [pc EXCEPT ![self] = IF ~dialOk THEN "r_failed"
                                          ELSE IF metadataOk THEN "r_ok"
                                          ELSE "r_warn"]
       ELSE /\ UNCHANGED connVars
            /\ pc' = [pc EXCEPT ![self] = "r_absent"]
  /\ UNCHANGED <<config, endpointUp, startErr, loadVars>>
  /\ UNCHANGED <<recentAttempt, lastStatus, lockHolder, stopCalls,
                 panicked, prevPolled>>
  /\ UNCHANGED <<tombVars, chanVars, callVars, errVars>>

\* attemptReconnection logs the outcome and returns: the deferred Unlock.
attemptReconnectionReturn(self) ==
  /\ ~panicked
  /\ pc[self] \in {"r_ok", "r_warn", "r_failed", "r_absent"}
  /\ lockHolder = self
  /\ lockHolder' = "none"
  /\ pc' = [pc EXCEPT ![self] = returnTo(self)]
  /\ UNCHANGED <<config, endpointUp, startErr, loadVars>>
  /\ UNCHANGED <<recentAttempt, lastStatus, stopCalls, panicked, prevPolled>>
  /\ UNCHANGED <<connVars, tombVars, chanVars, callVars, errVars>>

\* The backoff computations: the reconnections of the health loop alone,
\* each followed by its try and its return.
NextBackoff ==
  \/ attemptReconnectionBackoff
  \/ attemptReconnectionOpen("health")
  \/ attemptReconnectionReturn("health")

SpecBackoff == InitBackoff /\ [][NextBackoff]_vars

NextSession ==
  \/ Start
  \/ sendInitialStatus
  \/ monitorLoopTick
  \/ monitorLoopStop
  \/ checkHealthSkip
  \/ checkHealthCall
  \/ checkHealthOk
  \/ checkHealthFail
  \/ handleErrorCount
  \/ handleErrorTransient
  \/ handleErrorThreshold
  \/ attemptReconnectionLock("monitor")
  \/ attemptReconnectionLock("health")
  \/ attemptReconnectionEnter("monitor")
  \/ attemptReconnectionEnter("health")
  \/ attemptReconnectionResume("monitor")
  \/ attemptReconnectionResume("health")
  \/ attemptReconnectionGiveUp("monitor")
  \/ attemptReconnectionGiveUp("health")
  \/ attemptReconnectionOpen("monitor")
  \/ attemptReconnectionOpen("health")
  \/ attemptReconnectionReturn("monitor")
  \/ attemptReconnectionReturn("health")
  \/ healthCheckLoopTick
  \/ healthCheckLoopStop
  \/ healthCheckLoopCheck
  \/ stopBegin
  \/ stopNotify
  \/ stopSignal
  \/ stopWait
  \/ stopCloseConn
  \/ stopCloseChan
  \/ channelStateChange
  \/ secondPasses
  \/ hostReceive

SpecSession == InitSession /\ [][NextSession]_vars

\* A session open has just succeeded: the initial connect of Start, or the
\* connectUnsafe of a reconnection.
OpenSucceeds ==
  \/ pc["stop"] = "new" /\ pc'["stop"] # "new" /\ conn' = "live"
  \/ \E p \in {"monitor", "health"} :
       pc[p] = "r_sleep" /\ pc'[p] \in {"r_ok", "r_warn"}

\* A session open has just failed.
OpenFails ==
  \/ pc["stop"] = "new" /\ pc'["stop"] # "new" /\ conn' # "live"
  \/ \E p \in {"monitor", "health"} : pc[p] = "r_sleep" /\ pc'[p] = "r_failed"

\* C23: immediately after every successful session open connected is true
\* and backoffAttempt and errorCount are both 0; a failed open changes
\* neither counter.
C23_OpenResets ==
  [][/\ OpenSucceeds =>
          (connected' /\ backoffAttempt' = 0 /\ errorCount' = 0)
     /\ OpenFails =>
          (backoffAttempt' = backoffAttempt /\ errorCount' = errorCount)]_vars

\* C23 witness: the status loop's reconnection, begun at the error
\* threshold, has just opened a session and the counters are back at 0.
C23_Witness ==
  /\ pc["monitor"] = "r_ok"
  /\ connected
  /\ backoffAttempt = 0
  /\ errorCount = 0
  /\ conn = "live"

\* The step in which handleError's p.errorCount++ writes.
CountsFailure == pc["monitor"] = "m_incr" /\ pc'["monitor"] # "m_incr"

\* errorCount, or backoffAttempt, goes from a positive value to 0.
ErrorCountReset == errorCount # 0 /\ errorCount' = 0
BackoffAttemptReset == backoffAttempt # 0 /\ backoffAttempt' = 0

\* C24 as stated: errorCount is reset only by a successful CheckHealth and
\* backoffAttempt only by a successful open; every successful CheckHealth
\* resets errorCount, and every counted failure makes it one more than it
\* was, so that it is the number of failures since that CheckHealth.
C24_ResetsAsStated ==
  [][/\ ErrorCountReset => PollSucceeds
     /\ BackoffAttemptReset => OpenSucceeds
     /\ PollSucceeds => errorCount' = 0
     /\ CountsFailure => errorCount' = errorCount + 1]_vars

\* C24 amended: errorCount is reset by a successful CheckHealth and by a
\* successful session open, and by nothing else; backoffAttempt is reset
\* only by a successful open; a successful CheckHealth whose Status is
\* sent, suppressed or dropped resets errorCount (one cut short by the
\* shutdown signal does not); a counted failure stores one more than the
\* value read when the failure was taken.
C24_Resets ==
  [][/\ ErrorCountReset => (PollSucceeds \/ OpenSucceeds)
     /\ BackoffAttemptReset => OpenSucceeds
     /\ (PollSucceeds /\ lastOutcome' \notin {"stop", "panic"}) =>
          errorCount' = 0
     /\ CountsFailure => errorCount' = tmpCount + 1]_vars

\* C24 witness: after a Transient failure was counted and with no session
\* opened since (connected is still false, a reconnection try has been
\* spent), a successful CheckHealth whose Status was suppressed has put
\* errorCount back to 0.
C24_Witness ==
  /\ errorCount = 0
  /\ ~connected
  /\ backoffAttempt > 0
  /\ lastOutcome = "suppressed"
  /\ pc["monitor"] = "m_select"
  /\ nCalls = MaxCalls

\* The status tick's checkHealth finds the proxy not connected and returns.
SkipsTick ==
  pc["monitor"] = "m_tick" /\ pc'["monitor"] # "m_tick" /\ ~isConnected

\* C25: a status tick that finds the proxy not connected is a no-op: no
\* call is issued, the sequence counter, the channel, the reference and
\* errorCount stay as they are, and no connection attempt begins: the loop
\* is back at its select.
C25_SkipIsNoOp ==
  [][SkipsTick =>
       /\ pc'["monitor"] = "m_select"
       /\ UNCHANGED <<sequenceNumber, reqSeq, reqParams, nCalls>>
       /\ UNCHANGED <<statusChan, chanClosed, lastPlaced, lastOutcome>>
       /\ UNCHANGED <<lastStatus, errorCount, tmpCount>>
       /\ UNCHANGED <<conn, connected, backoffAttempt, recentAttempt,
                      openSessions, lockHolder>>]_vars

\* C25 witness: a status tick finds the channel out of Ready/Idle, with a
\* reference recorded, failures counted and a Status waiting in the
\* channel.
C25_Witness ==
  /\ pc["monitor"] = "m_tick"
  /\ lockHolder = "none"
  /\ ~isConnected
  /\ ~panicked
  /\ lastStatus # <<>>
  /\ errorCount > 0
  /\ statusChan # <<>>
  /\ sequenceNumber > 0

\* The positions of the status loop between a failed call and its return to
\* the select: handleError and the reconnection it may start.
FailurePath ==
  {"m_incr", "m_mark", "m_thresh", "r_enter", "r_blocked", "r_sleep",
   "r_giveup", "r_ok", "r_warn", "r_failed", "r_absent"}

\* A step of the status loop that takes or handles a failed call.
HandlesFailure ==
  /\ pc'["monitor"] # pc["monitor"]
  /\ \/ pc["monitor"] = "m_call" /\ pc'["monitor"] = "m_incr"
     \/ pc["monitor"] \in FailurePath

\* C26: a failed CheckHealth, whatever its class, emits nothing and leaves
\* the channel and the reference as they are, through handleError and the
\* reconnection it may start; the reference changes only when the initial
\* Status or a successful poll returns, so the next successful poll is
\* compared with the reference of before the failure.
C26_FailureEmitsNothing ==
  [][/\ HandlesFailure =>
          UNCHANGED <<statusChan, chanClosed, lastPlaced, lastOutcome,
                      lastStatus>>
     /\ lastStatus' # lastStatus =>
          (pc["monitor"] \in {"m_init", "m_call"} /\
           pc'["monitor"] = "m_select")]_vars

\* C26 witness: a failed call of a class that is neither Transient nor
\* Unsupported has been counted, with a reference recorded and a Status in
\* the channel.
C26_Witness ==
  /\ pc["monitor"] = "m_thresh"
  /\ errCode = "Internal"
  /\ errorCount > 0
  /\ lastStatus # <<>>
  /\ statusChan # <<>>

\* An invocation of attemptReconnection passes the debounce and give-up
\* tests and goes to its wait.
PassesChecks ==
  \E p \in {"monitor", "health"} :
    pc[p] \notin {"r_sleep"} /\ pc'[p] = "r_sleep"

\* C27 as stated: each invocation that passes the tests waits
\* min(b * m^i, maxBackoff) for the pre-increment value i of backoffAttempt
\* and raises backoffAttempt by exactly 1, and backoffAttempt is the number
\* of failed tries since the last success: it goes up when a try fails and
\* only then.
C27_CountsFailedTriesAsStated ==
  [][/\ PassesChecks =>
          (backoff' = LawDelay(config, backoffAttempt) /\
           backoffAttempt' = backoffAttempt + 1)
     /\ OpenFails => backoffAttempt' = backoffAttempt + 1]_vars

\* The product b * m^i of the policy fits a Duration.
FitsDuration(policy, i) ==
  (policy.initialBackoff * Pow(policy.backoffMultiplier.num, i))
     \div Pow(policy.backoffMultiplier.den, i) <= MaxDuration

\* C27 amended: backoffAttempt counts the tries begun since the last
\* successful open.  Each invocation that passes the tests computes the
\* delay from the pre-increment value i (min(b * m^i, maxBackoff) when the
\* product fits a Duration) and raises backoffAttempt by exactly 1 before
\* it waits; the try's failure, or its being skipped for want of the
\* socket, changes nothing more, and a successful open puts it back to 0.
C27_CountsTries ==
  [][/\ PassesChecks =>
          /\ \E arch \in {"amd64", "arm64"} :
               backoff' = backoffDelay(config, backoffAttempt, arch)
          /\ FitsDuration(config, backoffAttempt) =>
               backoff' = LawDelay(config, backoffAttempt)
          /\ backoffAttempt' = backoffAttempt + 1
     /\ backoffAttempt' # backoffAttempt =>
          (PassesChecks \/ (OpenSucceeds /\ backoffAttempt' = 0))
     /\ OpenFails => backoffAttempt' = backoffAttempt]_vars

\* C27 witness: the third try in a row has failed; it waited the delay of
\* attempt index 2, which is below maxBackoff and above the first delay.
C27_Witness ==
  /\ pc["health"] = "r_failed"
  /\ backoffAttempt = 3
  /\ backoff = LawDelay(config, 2)
  /\ backoff < config.maxBackoff
  /\ backoff > config.initialBackoff

\* Process p's invocation of attemptReconnection gets the lock less than a
\* second after the last attempt and leaves the procedure.
Debounced(p) ==
  /\ pc[p] \in {"r_enter", "r_blocked"}
  /\ pc'[p] \notin {"r_enter", "r_blocked"}
  /\ recentAttempt

\* The debounced invocation is a no-op that does not wait: it is back in
\* its loop with the lock free.
DebounceIsNoOp ==
  \A p \in {"monitor", "health"} :
    Debounced(p) =>
      /\ pc'[p] = returnTo(p)
      /\ lockHolder' = "none"
      /\ UNCHANGED <<backoffAttempt, recentAttempt, conn, connected,
                     errorCount, metadata, openSessions>>

\* C28 as stated: a debounced invocation is a no-op, and of two invocations
\* arriving together only one makes a connection try: the one that found
\* the lock held by the other's invocation does not go on to its own wait.
C28_DebounceAsStated ==
  [][/\ DebounceIsNoOp
     /\ \A p \in {"monitor", "health"} :
          pc[p] = "r_blocked" => pc'[p] # "r_sleep"]_vars

\* C28 amended: a debounced invocation is a no-op; of two invocations
\* arriving together the second is debounced when it gets the lock less
\* than a second after the first one's attempt time, and makes a try of
\* its own when the first one's wait has used up that second.
C28_Debounce ==
  [][/\ DebounceIsNoOp
     /\ \A p \in {"monitor", "health"} :
          pc[p] = "r_blocked" /\ pc'[p] # "r_blocked" =>
            IF recentAttempt THEN pc'[p] = returnTo(p)
            ELSE pc'[p] \in {"r_sleep", "r_giveup"}]_vars

\* C28 witness: the status loop's invocation has waited for the lock behind
\* the health loop's and gets it within the second.
C28_Witness ==
  /\ pc["monitor"] = "r_blocked"
  /\ pc["health"] \in {"h_select", "h_tick"}
  /\ lockHolder = "none"
  /\ recentAttempt
  /\ ~panicked

\* The reconnection of process p finds the socket missing.
SocketAbsent(p) == pc[p] = "r_sleep" /\ pc'[p] = "r_absent"

\* C29: when os.Stat does not find the socket at a reconnection attempt, no
\* session open is attempted: the session pointer, the open sessions, the
\* connected flag, errorCount and the metadata are as they were, and the
\* procedure goes to its return.
C29_AbsentSocketSkips ==
  [][\A p \in {"monitor", "health"} :
       SocketAbsent(p) =>
         UNCHANGED <<conn, openSessions, connected, errorCount, metadata,
                     backoffAttempt>>]_vars

\* C29 witness: the status loop's reconnection, begun at the error
\* threshold with a session in place, has found the socket missing.
C29_Witness ==
  /\ pc["monitor"] = "r_absent"
  /\ conn \in {"live", "down"}
  /\ openSessions = 1
  /\ errorCount > 0
  /\ ~connected

\* The health tick's isConnected test is made.
HealthChecks == pc["health"] = "h_tick" /\ pc'["health"] # "h_tick"

\* C30: on each health tick attemptReconnection is invoked if and only if
\* the session is not live (p.conn is nil, or its channel is neither Ready
\* nor Idle), whatever p.connected says; a tick that finds it live changes
\* nothing but the loop's position, which is back at the select; and the
\* health loop enters attemptReconnection from such a tick only.
C30_HealthTick ==
  [][/\ HealthChecks =>
          IF isConnected
          THEN /\ pc' = [pc EXCEPT !["health"] = "h_select"]
               /\ UNCHANGED <<connVars, tombVars, chanVars, callVars, errVars,
                              loadVars, config, endpointUp, startErr,
                              recentAttempt, lastStatus, lockHolder, stopCalls,
                              panicked, prevPolled>>
          ELSE pc'["health"] = "r_enter"
     /\ (pc["health"] # "r_enter" /\ pc'["health"] = "r_enter") =>
          (HealthChecks /\ ~isConnected)]_vars

\* C30 witness: a health tick has found the channel out of Ready/Idle while
\* p.connected is still true, and attemptReconnection is being invoked.
C30_Witness ==
  /\ pc["health"] = "r_enter"
  /\ conn = "down"
  /\ connected
  /\ nCalls > 0

\* A session open has succeeded and its fetchMetadata has failed: in Start
\* (no identity stored before, none after), or in a reconnection.
FetchFails ==
  \/ /\ pc["stop"] = "new" /\ pc'["stop"] # "new"
     /\ conn' = "live" /\ metadata' = "nil"
  \/ \E p \in {"monitor", "health"} : pc[p] = "r_sleep" /\ pc'[p] = "r_warn"

\* C31: a failed metadata fetch after a successful open is not fatal: the
\* open is a success (Start returns nil, the reconnection is on its success
\* path), the new session is installed and is the one open session,
\* connected is true, backoffAttempt and errorCount are 0, and the stored
\* metadata is what it was.
C31_FetchFailureNotFatal ==
  [][FetchFails =>
       /\ OpenSucceeds
       /\ pc["stop"] = "new" => startErr' = "nil"
       /\ conn' = "live" /\ openSessions' = 1
       /\ connected'
       /\ backoffAttempt' = 0 /\ errorCount' = 0
       /\ metadata' = metadata]_vars

\* C31 witness: a reconnection of the health loop has opened a session and
\* failed to fetch the metadata, with the identity of an earlier session
\* stored.
C31_Witness ==
  /\ pc["health"] = "r_warn"
  /\ metadata = "v1"
  /\ conn = "live"
  /\ connected

\* The Status the status loop has produced in this step: the synthetic one
\* of sendInitialStatus, or the conversion of the poll's answer.
Produced ==
  IF pc["monitor"] = "m_init" THEN initialStatus(config) ELSE prevPolled'[1]

ProxyAtRest ==
  /\ config = "none"
  /\ backoff = 0
  /\ conn = "nil"
  /\ connected = FALSE
  /\ recentAttempt = FALSE
  /\ backoffAttempt = 0
  /\ errorCount = 0
  /\ sequenceNumber = 0
  /\ lastStatus = <<>>
  /\ metadata = "nil"
  /\ openSessions = 0
  /\ statusChan = <<>>
  /\ chanClosed = FALSE
  /\ stopping = FALSE
  /\ done = FALSE
  /\ lockHolder = "none"
  /\ pc = [monitor |-> "new", health |-> "new", stop |-> "new"]
  /\ reqSeq = 0
  /\ reqParams = <<>>
  /\ errCode = "none"
  /\ tmpCount = 0
  /\ startErr = "none"
  /\ stopCalls = 0
  /\ panicked = FALSE
  /\ nCalls = 0
  /\ prevPolled = <<>>
  /\ lastPlaced = <<>>
  /\ lastOutcome = "none"
  /\ otherRun = 0
  /\ endpointUp = FALSE

proxyVars ==
  <<config, backoff, conn, connected, recentAttempt, backoffAttempt,
    errorCount, sequenceNumber, lastStatus, metadata, openSessions,
    statusChan, chanClosed, stopping, done, lockHolder, pc, reqSeq,
    reqParams, errCode, tmpCount, startErr, stopCalls, panicked, nCalls,
    prevPolled, lastPlaced, lastOutcome, otherRun, endpointUp>>

\* npdt.Condition values: one, and the five that differ from it in one
\* field each.
HealthyCondition ==
  [type |-> "GPUHealthy", status |-> "False", transition |-> 0,
   reason |-> "GPUIsHealthy", message |-> "GPU is healthy"]

SomeConditions ==
  {HealthyCondition,
   [HealthyCondition EXCEPT !.transition = 1],
   [HealthyCondition EXCEPT !.type = "GPUMemory"],
   [HealthyCondition EXCEPT !.status = "True"],
   [HealthyCondition EXCEPT !.reason = "GPUOverheating"],
   [HealthyCondition EXCEPT !.message = "GPU temperature 85C exceeds 80C"]}

\* The lists of at most MaxConditions conditions drawn from S.
ListsOf(S) == UNION {[1..n -> S] : n \in 0..MaxConditions}

\* The caller holds three condition lists.
InitCompare ==
  /\ rawConfig \in
       [a : ListsOf(SomeConditions), b : ListsOf(SomeConditions),
        c : ListsOf({HealthyCondition,
                     [HealthyCondition EXCEPT !.transition = 1]})]
  /\ outcome = [called |-> FALSE]
  /\ ProxyAtRest

\* The caller compares the lists with conditionsEqual.
compareConditions ==
  /\ ~outcome.called
  /\ outcome' = [called |-> TRUE,
                 aa |-> conditionsEqual(rawConfig.a, rawConfig.a),
                 ab |-> conditionsEqual(rawConfig.a, rawConfig.b),
                 ba |-> conditionsEqual(rawConfig.b, rawConfig.a),
                 bc |-> conditionsEqual(rawConfig.b, rawConfig.c),
                 ac |-> conditionsEqual(rawConfig.a, rawConfig.c)]
  /\ UNCHANGED <<rawConfig, proxyVars>>

NextCompare == compareConditions

SpecCompare == InitCompare /\ [][NextCompare]_vars

\* What of a condition the comparison looks at.
Compared(c) == <<c.type, c.status, c.reason, c.message>>

\* Same length, and the same type, status, reason and message at every
\* position.
AgreeInOrder(a, b) ==
  /\ Len(a) = Len(b)
  /\ \A i \in 1..Len(a) : Compared(a[i]) = Compared(b[i])

\* C33: conditionsEqual is reflexive, symmetric and transitive, and holds
\* exactly when the lists have the same length and agree position by
\* position on type, status, reason and message: the transition time is
\* not looked at, and the same conditions in another order are different
\* lists.
C33_ConditionsEqual ==
  outcome.called =>
    /\ outcome.aa
    /\ outcome.ab = outcome.ba
    /\ (outcome.ab /\ outcome.bc) => outcome.ac
    /\ outcome.ab = AgreeInOrder(rawConfig.a, rawConfig.b)

\* C33 witness: two lists of the same two conditions in opposite orders
\* have been found different, each being equal to itself.
C33_Witness ==
  /\ outcome.called
  /\ Len(rawConfig.a) = 2
  /\ Compared(rawConfig.a[1]) # Compared(rawConfig.a[2])
  /\ rawConfig.b = <<rawConfig.a[2], rawConfig.a[1]>>
  /\ ~outcome.ab
  /\ outcome.aa

\* C34 as stated: the delay attemptReconnection has computed is never
\* negative and never above maxBackoff, for every attempt index below
\* maxAttempts, also when initialBackoff * multiplier^attempt is beyond the
\* range of a Duration.
C34_DelayInRangeAsStated ==
  0 <= backoff /\ backoff <= config.maxBackoff

\* pb.Event and pb.Condition values on the wire: every enum value the
\* conversion names, one it does not ("99"), and two reasons to tell the
\* elements of a list apart.
WireEvents ==
  [severity : {"SEVERITY_INFO", "SEVERITY_WARN", "99"},
   timestamp : {1}, reason : {"GPUOverheating", "GPUMemoryHigh"},
   message : {"m"}]

WireConditions ==
  [type : {"GPUHealthy"},
   status : {"CONDITION_STATUS_TRUE", "CONDITION_STATUS_FALSE",
             "CONDITION_STATUS_UNKNOWN", "99"},
   transition : {1}, reason : {"GPUOverheating", "GPUMemoryHigh"},
   message : {"m"}]

\* The caller holds the *pb.Status of an answer: <<>> is nil.
InitConvert ==
  /\ rawConfig \in
       {<<>>} \cup
       {<<w>> : w \in [source : {"gpu-monitor"}, events : ListsOf(WireEvents),
                       conditions : ListsOf(WireConditions)]}
  /\ outcome = [called |-> FALSE, status |-> <<>>, err |-> <<>>]
  /\ ProxyAtRest

\* The caller calls p.convertStatus: an error for nil, else the conversion.
convertWireStatus ==
  /\ ~outcome.called
  /\ outcome' = IF rawConfig = <<>>
                THEN [called |-> TRUE, status |-> <<>>,
                      err |-> <<"status is nil">>]
                ELSE [called |-> TRUE,
                      status |-> <<convertStatus(rawConfig[1])>>,
                      err |-> <<>>]
  /\ UNCHANGED <<rawConfig, proxyVars>>

NextConvert == convertWireStatus

SpecConvert == InitConvert /\ [][NextConvert]_vars

\* The internal value the specified mapping gives a wire severity and a
\* wire condition status.
SeverityOf(w) == IF w = "SEVERITY_WARN" THEN "Warn" ELSE "Info"

ConditionStatusOf(w) ==
  IF w = "CONDITION_STATUS_TRUE" THEN "True"
  ELSE IF w = "CONDITION_STATUS_FALSE" THEN "False" ELSE "Unknown"

\* C35: the conversion of a Status that is there succeeds, keeps the number
\* and the order of the Events and of the Conditions, maps severity WARN to
\* Warn and every other severity to Info, and condition status TRUE to
\* True, FALSE to False and every other value to Unknown.
C35_Conversion ==
  (outcome.called /\ rawConfig # <<>>) =>
    /\ outcome.err = <<>>
    /\ outcome.status # <<>>
    /\ LET w == rawConfig[1]
           st == outcome.status[1]
       IN  /\ Len(st.events) = Len(w.events)
           /\ Len(st.conditions) = Len(w.conditions)
           /\ \A i \in 1..Len(w.events) :
                /\ st.events[i].severity = SeverityOf(w.events[i].severity)
                /\ st.events[i].reason = w.events[i].reason
           /\ \A i \in 1..Len(w.conditions) :
                /\ st.conditions[i].status =
                     ConditionStatusOf(w.conditions[i].status)
                /\ st.conditions[i].reason = w.conditions[i].reason

\* C35 witness: a Status with an Event of unrecognized severity followed by
\* a WARN one, and with Conditions of unrecognized and TRUE status, has
\* been converted.
C35_Witness ==
  /\ outcome.called
  /\ rawConfig # <<>>
  /\ Len(rawConfig[1].events) = 2
  /\ rawConfig[1].events[1].severity = "99"
  /\ rawConfig[1].events[2].severity = "SEVERITY_WARN"
  /\ rawConfig[1].events[1].reason # rawConfig[1].events[2].reason
  /\ Len(rawConfig[1].conditions) = 2
  /\ rawConfig[1].conditions[1].status = "99"
  /\ rawConfig[1].conditions[2].status = "CONDITION_STATUS_TRUE"
  /\ outcome.status[1].events[1].severity = "Info"
  /\ outcome.status[1].conditions[1].status = "Unknown"

\* ------------------------------------------------ the GPU monitor plugin
\* A string is the sequence of its characters.  A float64 is its value in
\* tenths, or NaN.
MaxTemperature == 3

MaxMemoryHalves == 5

Float(t) == [nan |-> FALSE, tenths |-> t]

NaN == [nan |-> TRUE, tenths |-> 0]

\* x > y on float64: false when either side is NaN.
FloatGreater(x, y) == ~x.nan /\ ~y.nan /\ x.tenths > y.tenths

DigitValue(c) ==
  CASE c = "0" -> 0 [] c = "1" -> 1 [] c = "2" -> 2 [] c = "3" -> 3
    [] c = "4" -> 4 [] c = "5" -> 5 [] c = "6" -> 6 [] c = "7" -> 7
    [] c = "8" -> 8 [] c = "9" -> 9

IsDigits(s) ==
  \A i \in 1..Len(s) :
    s[i] \in {"0", "1", "2", "3", "4", "5", "6", "7", "8", "9"}

RECURSIVE DigitsValue(_)
DigitsValue(s) ==
  IF s = <<>> THEN 0
  ELSE 10 * DigitsValue(SubSeq(s, 1, Len(s) - 1)) + DigitValue(s[Len(s)])

Unsigned(s) == IF s # <<>> /\ s[1] \in {"+", "-"} THEN Tail(s) ELSE s

Sign(s) == IF s # <<>> /\ s[1] = "-" THEN -1 ELSE 1

\* strconv.Atoi: an optional sign and one or more decimal digits; anything
\* else is an error.
Atoi(s) ==
  LET u == Unsigned(s)
  IN  IF u # <<>> /\ IsDigits(u)
      THEN [ok |-> TRUE, val |-> Sign(s) * DigitsValue(u)]
      ELSE [ok |-> FALSE, val |-> 0]

\* strconv.ParseFloat(s, 64) on the strings that are decimal numbers with
\* at most one digit after the point, or NaN; anything else considered here
\* is an error.
ParseFloat(s) ==
  LET u == Unsigned(s)
      dot == {i \in 1..Len(u) : u[i] = "."}
  IN  IF s = <<"N", "a", "N">> THEN [ok |-> TRUE, val |-> NaN]
      ELSE IF u # <<>> /\ IsDigits(u)
      THEN [ok |-> TRUE, val |-> Float(Sign(s) * 10 * DigitsValue(u))]
      ELSE IF /\ Len(u) >= 2
              /\ dot = {Len(u) - 1}
              /\ IsDigits(SubSeq(u, 1, Len(u) - 2))
              /\ IsDigits(<<u[Len(u)]>>)
      THEN [ok |-> TRUE,
            val |-> Float(Sign(s) *
                          (10 * DigitsValue(SubSeq(u, 1, Len(u) - 2))
                           + DigitValue(u[Len(u)])))]
      ELSE [ok |-> FALSE, val |-> Float(0)]

\* The Status CheckHealth builds from the statistics and the thresholds it
\* has settled on.
gpuStatus(stats, tempThreshold, memThreshold) ==
  IF stats.err
  THEN [source |-> "gpu-monitor", events |-> <<>>,
        conditions |->
          <<[type |-> "GPUHealthy", status |-> "CONDITION_STATUS_UNKNOWN",
             reason |-> "GPUMonitoringError",
             message |-> <<"Failed to monitor GPU">>]>>]
  ELSE IF ~stats.available
  THEN [source |-> "gpu-monitor",
        events |->
          <<[severity |-> "SEVERITY_WARN", reason |-> "GPUNotAvailable",
             message |-> <<"No GPU detected or nvidia-smi not available">>]>>,
        conditions |->
          <<[type |-> "GPUHealthy", status |-> "CONDITION_STATUS_UNKNOWN",
             reason |-> "GPUNotAvailable",
             message |-> <<"GPU not available for monitoring">>]>>]
  ELSE
    LET hot == stats.temperature > tempThreshold
        full == FloatGreater(stats.memoryPercent, memThreshold)
        hotEvent ==
          [severity |-> "SEVERITY_WARN", reason |-> "GPUOverheating",
           message |-> <<"GPU temperature exceeds threshold",
                         stats.temperature, tempThreshold>>]
        fullEvent ==
          [severity |-> "SEVERITY_WARN", reason |-> "GPUMemoryHigh",
           message |-> <<"GPU memory usage exceeds threshold",
                         stats.memoryPercent, memThreshold>>]
        events == (IF hot THEN <<hotEvent>> ELSE <<>>)
                  \o (IF full THEN <<fullEvent>> ELSE <<>>)
        isHealthy == ~hot /\ ~full
        reason == IF isHealthy THEN "GPUIsHealthy"
                  ELSE IF hot /\ full THEN "GPUMultipleIssues"
                  ELSE IF full THEN "GPUMemoryHigh" ELSE "GPUOverheating"
        message ==
          IF isHealthy
          THEN <<"GPU is healthy", stats.temperature, stats.memoryPercent>>
          ELSE IF hot /\ full
          THEN <<"GPU has multiple issues", stats.temperature,
                 stats.memoryPercent>>
          ELSE IF full THEN fullEvent.message ELSE hotEvent.message
    IN  [source |-> "gpu-monitor", events |-> events,
         conditions |->
           <<[type |-> "GPUHealthy",
              status |-> IF isHealthy THEN "CONDITION_STATUS_FALSE"
                         ELSE "CONDITION_STATUS_TRUE",
              reason |-> reason, message |-> message]>>]

GPUMonitorCheckHealthOwnThresholds(m, req, stats) ==
  gpuStatus(stats, m.tempThreshold, m.memThreshold)

\* GPUMonitor.CheckHealth: a parameter of the request that parses replaces
\* the monitor's threshold.  A parameter is <<>> when the key is absent and
\* <<s>> when its value is s.
GPUMonitorCheckHealth(m, req, stats) ==
  LET t == req.parameters.temperature_threshold
      f == req.parameters.memory_threshold
      tempThreshold == IF t # <<>> /\ Atoi(t[1]).ok THEN Atoi(t[1]).val
                       ELSE m.tempThreshold
      memThreshold == IF f # <<>> /\ ParseFloat(f[1]).ok
                      THEN ParseFloat(f[1]).val
                      ELSE m.memThreshold
  IN  gpuStatus(stats, tempThreshold, memThreshold)

TemperatureParameters ==
  {<<>>, <<"1">>, <<"2">>, <<"-", "1">>, <<"1", ".", "5">>, <<"x">>}

MemoryParameters ==
  {<<>>, <<"1">>, <<"1", ".", "5">>, <<"N", "a", "N">>, <<"x">>}

Optional(S) == {<<>>} \cup {<<x>> : x \in S}

GPUStatsValues ==
  {[err |-> TRUE, available |-> FALSE, temperature |-> 0,
    memoryPercent |-> Float(0)],
   [err |-> FALSE, available |-> FALSE, temperature |-> 0,
    memoryPercent |-> Float(0)]}
  \cup [err : {FALSE}, available : {TRUE},
        temperature : 0..MaxTemperature,
        memoryPercent : {Float(5 * k) : k \in 0..MaxMemoryHalves}]

\* A monitor with its own thresholds, a request, and what getGPUStats will
\* answer.
InitGpu ==
  /\ rawConfig \in
       [m : [tempThreshold : {1, 2},
             memThreshold : {Float(10), Float(20)}],
        req : [parameters :
                 [temperature_threshold : Optional(TemperatureParameters),
                  memory_threshold : Optional(MemoryParameters)]],
        stats : GPUStatsValues]
  /\ outcome = [called |-> FALSE, status |-> <<>>]
  /\ ProxyAtRest

gpuCheckHealth ==
  /\ ~outcome.called
  /\ outcome' =
       [called |-> TRUE,
        status |-> <<GPUMonitorCheckHealth(rawConfig.m, rawConfig.req,
                                           rawConfig.stats)>>]
  /\ UNCHANGED <<rawConfig, proxyVars>>

NextGpu == gpuCheckHealth

SpecGpu == InitGpu /\ [][NextGpu]_vars

\* The threshold in force: the request's when it carries one that is a
\* number, else the plugin's own.
TemperatureThresholdInForce ==
  LET t == rawConfig.req.parameters.temperature_threshold
  IN  IF t # <<>> /\ Atoi(t[1]).ok THEN Atoi(t[1]).val
      ELSE rawConfig.m.tempThreshold

MemoryThresholdInForce ==
  LET f == rawConfig.req.parameters.memory_threshold
  IN  IF f # <<>> /\ ParseFloat(f[1]).ok THEN ParseFloat(f[1]).val
      ELSE rawConfig.m.memThreshold

TooHot == rawConfig.stats.temperature > TemperatureThresholdInForce

TooFull == FloatGreater(rawConfig.stats.memoryPercent, MemoryThresholdInForce)

StatsAvailable == ~rawConfig.stats.err /\ rawConfig.stats.available

C37_CountersInRange ==
  /\ 0 <= backoffAttempt
  /\ backoffAttempt <= config.maxAttempts
  /\ errorCount >= 0

\* C37 witness: with every attempt used up and failures counted,
\* attemptReconnection has taken its give-up return while Stop is under
\* way.
C37_Witness ==
  /\ \E self \in {"monitor", "health"} : pc[self] = "r_giveup"
  /\ backoffAttempt = config.maxAttempts
  /\ errorCount > 0
  /\ pc["stop"] \notin {"new", "idle"}

\* ------------------------------------------------- the proxy, scheduled
\* The running proxy under a scheduler that lets every goroutine run: a
\* call, a sleep and a wait that can end do end, a goroutine queued on the
\* connection lock gets it (sync.RWMutex hands the lock to waiters), and a
\* select whose Stopping case is ready over and over takes it (select picks
\* among its ready cases at random).  Tickers need not fire and Stop need
\* not be called.  Stop is called once; the plugin answers with one Status
\* or fails with one error of each class of handleError, neither of which
\* the control flow of the loops looks further into.
StopConfigs ==
  {c \in Configs : c.skipInitialStatus /\ c.errorThreshold = 1}

InitStop == Init /\ config \in StopConfigs

stopOnce == stopBegin /\ stopCalls = 0

checkHealthOkHealthy ==
  checkHealthOk /\ prevPolled' = <<convertStatus(WireHealthy)>>

checkHealthFailEitherClass ==
  checkHealthFail /\ errCode' \in {"Unavailable", "Internal"}

NextStop ==
  \/ Start
  \/ sendInitialStatus
  \/ monitorLoopTick
  \/ monitorLoopStop
  \/ checkHealthSkip
  \/ checkHealthCall
  \/ checkHealthOkHealthy
  \/ checkHealthFailEitherClass
  \/ handleErrorCount
  \/ handleErrorTransient
  \/ handleErrorThreshold
  \/ attemptReconnectionEnter("monitor")
  \/ attemptReconnectionEnter("health")
  \/ attemptReconnectionGiveUp("monitor")
  \/ attemptReconnectionGiveUp("health")
  \/ attemptReconnectionConnect("monitor")
  \/ attemptReconnectionConnect("health")
  \/ healthCheckLoopTick
  \/ healthCheckLoopStop
  \/ healthCheckLoopCheck
  \/ stopOnce
  \/ stopNotify
  \/ stopSignal
  \/ stopWait
  \/ stopCloseConn
  \/ stopCloseChan
  \/ channelStateChange
  \/ secondPasses
  \/ hostReceive

StopFairness ==
  /\ WF_vars(sendInitialStatus)
  /\ SF_vars(monitorLoopStop)
  /\ SF_vars(\/ checkHealthSkip
             \/ checkHealthCall
             \/ handleErrorTransient
             \/ attemptReconnectionEnter("monitor"))
  /\ WF_vars(checkHealthOkHealthy \/ checkHealthFailEitherClass)
  /\ WF_vars(handleErrorCount)
  /\ WF_vars(handleErrorThreshold)
  /\ \A self \in {"monitor", "health"} :
       /\ WF_vars(attemptReconnectionGiveUp(self))
       /\ WF_vars(attemptReconnectionConnect(self))
  /\ WF_vars(stopNotify)
  /\ WF_vars(stopSignal)
  /\ WF_vars(stopWait)
  /\ SF_vars(stopCloseConn)
  /\ WF_vars(stopCloseChan)

SpecStop == InitStop /\ [][NextStop]_vars /\ StopFairness

\* The goroutine is at a point where its next step takes the connection
\* lock: isConnected, handleError's p.connected = false, the entry of
\* attemptReconnection, Stop's closing of the connection.
AtLock(self) ==
  pc[self] \in {"m_tick", "m_mark", "h_tick", "r_enter", "s_conn"}

\* The step with which the goroutine takes the lock there.
LockStep(self) ==
  IF self = "monitor"
  THEN \/ checkHealthSkip
       \/ checkHealthCall
       \/ handleErrorTransient
       \/ attemptReconnectionEnter("monitor")
  ELSE IF self = "health"
  THEN healthCheckLoopCheck \/ attemptReconnectionEnter("health")
  ELSE stopCloseConn

\* The step with which a goroutine that keeps the lock across steps gives
\* it back.
UnlockStep(self) ==
  attemptReconnectionGiveUp(self) \/ attemptReconnectionConnect(self)

\* C38: no goroutine comes to take the connection lock while it holds it;
\* whoever holds the lock can give it back; and each of the status loop, the
\* health loop and Stop, at a point where it takes the lock, can take it as
\* soon as it is free.
C38_NoLockDeadlock ==
  ~panicked =>
    /\ \A self \in {"monitor", "health"} :
         lockHolder = self => ENABLED UnlockStep(self)
    /\ lockHolder # "stop"
    /\ \A self \in {"monitor", "health", "stop"} :
         AtLock(self) =>
           /\ lockHolder # self
           /\ lockHolder = "none" => ENABLED LockStep(self)

\* C38 witness: the status loop, past the threshold trip of handleError, is
\* at the entry of attemptReconnection while the health loop holds the lock
\* in its sleep.
C38_Witness ==
  /\ pc["monitor"] = "r_enter"
  /\ lockHolder = "health"
  /\ pc["health"] = "r_sleep"
  /\ ~panicked

\* The first call of Stop is under way.
StopUnderWay == stopCalls = 1 /\ pc["stop"] # "idle"

\* C39: a Stop called after Start eventually returns, with the status loop
\* exited, whatever the loops were doing when it was called: waiting for a
\* tick, in a call, or in a reconnection backoff with the lock held.
C39_StopTerminates ==
  StopUnderWay ~> (pc["stop"] = "idle" /\ pc["monitor"] = "done")

\* C39 witness: Stop waits for the tomb while the status loop, which has
\* not seen the stop signal yet, sits out a reconnection backoff with the
\* lock held.
C39_Witness ==
  /\ StopUnderWay
  /\ pc["stop"] = "s_wait"
  /\ stopping
  /\ pc["monitor"] = "r_sleep"
  /\ lockHolder = "monitor"

\* C40: no Status is sent on the closed status channel: no select of the
\* status loop meets the channel closed, and the channel is closed only when
\* the status loop has exited, however Stop interleaves with a tick or with
\* the initial emission.
C40_NoSendOnClosed ==
  /\ lastOutcome # "panic"
  /\ chanClosed => pc["monitor"] = "done"

\* C40 witness: Stop has closed the channel after a select of the status
\* loop, reached with the stop signal already given, took the Stopping case
\* and the loop exited.
C40_Witness ==
  /\ chanClosed
  /\ pc["monitor"] = "done"
  /\ lastOutcome = "stop"
  /\ ~panicked

====
